---- MODULE Spec2Model ----
(***************************************************************************)
(* Model of the query engine of 4CAT, backend/abstract/search_sphinx.py:   *)
(* SphinxSearch.process and the execute_* / filter_* methods it calls.     *)
(*                                                                         *)
(* Encoding of row lists.  A list of rows in the program (the result of a  *)
(* store query, a tuple of identifiers) is a sequence of records here, and *)
(* every record carries a multiplicity, so that lists of 25,000 and more   *)
(* rows can be written down:                                               *)
(*   - a thread of the archive has a field "width": the model thread       *)
(*     stands for width archive threads that agree in every column the     *)
(*     engine reads (width = 1: an ordinary thread);                       *)
(*   - a post of the archive has a field "n": the model post stands for n  *)
(*     posts in each of these threads that agree in every column the       *)
(*     engine reads (n = 1: an ordinary post).                             *)
(* len(), Counter() and the number of distinct threads are computed from   *)
(* the multiplicities.  With every multiplicity 1 the encoding is the      *)
(* list itself.                                                            *)
(***************************************************************************)
EXTENDS Integers, Sequences, FiniteSets, TLC

VARIABLES
    query,          \* self.dataset.get_parameters(): the query description
    archive,        \* the relational archive: [threads, posts]
    pc,             \* position of the execution in process / execute_*
    strategy,       \* which execute_* method process has called ("" = none yet)
    sphinx,         \* self.sphinx: "none", "open" or "closed"
    posts,          \* what the execute_* method returned (None or rows)
    ids,            \* the local post_ids / thread_ids handed on to the next stage
    calls,          \* the calls made so far, in order
    status,         \* the texts given to dataset.update_status, in order
    results_file,   \* does dataset.get_results_path() exist
    copy_file,      \* the file at copy_to: "absent", "copy" or "empty"
    finished,       \* the num_rows of each dataset.finish call, in order
    raised,         \* the exception that left process, or "none"
    d_in,           \* input of a density filter applied on its own
    d_out,          \* its outcome
    sphinx_query,   \* the where clauses and replacements given to fetch_sphinx
    cf,             \* ColumnFilter: its parameters, source items and output
    rw,             \* the restart worker: its job, the process and the log
    wa,             \* WriteAnnotations: the annotations, source items and output
    sw              \* the stringQuery workers and the queue of their jobs

vars == <<query, archive, pc, strategy, sphinx, posts, ids, calls, status,
          results_file, copy_file, finished, raised, d_in, d_out, sphinx_query,
          cf, rw, wa, sw>>

(***************************************************************************)
(* Bounds of the model.                                                    *)
(***************************************************************************)
MaxThread == 2
MaxPost == 3

\* the value of the local `posts`: Python's None, or a list of rows
None == [is_none |-> TRUE, rows |-> <<>>]
Rows(rows) == [is_none |-> FALSE, rows |-> rows]

\* the ceiling of the full-thread guard
MAX_FULL_THREADS == 25000

(***************************************************************************)
(* Sequences and sets of small integers.                                   *)
(***************************************************************************)
Range(s) == {s[i] : i \in DOMAIN s}

Min(S) == CHOOSE x \in S : \A y \in S : x <= y

\* the elements of a finite set of integers, ascending
RECURSIVE SetToSeq(_)
SetToSeq(S) ==
    IF S = {} THEN <<>> ELSE <<Min(S)>> \o SetToSeq(S \ {Min(S)})

RECURSIVE SumSeq(_)
SumSeq(s) == IF s = <<>> THEN 0 ELSE Head(s) + SumSeq(Tail(s))

(***************************************************************************)
(* The archive store: the tables threads_<prefix> and posts_<prefix>.      *)
(***************************************************************************)
THREAD_IDS == 1..MaxThread
POST_IDS == 1..MaxPost

BOARDS == <<"v", "pol">>
COUNTRY_CODES == <<"NL", "US", "DE">>

\* the thread, the board and the flag of model post i, and when it was posted
ThreadOf(i) == ((i - 1) % MaxThread) + 1
BoardOf(t) == BOARDS[((t - 1) % Len(BOARDS)) + 1]
CountryOf(i) == COUNTRY_CODES[((i - 1) % Len(COUNTRY_CODES)) + 1]
TimeOf(i) == 50 * i

\* thread 1 and its first post: an ordinary thread without replies or with
\* ten, a thread of 50 replies with 29 such posts, a thread with 25,001 such
\* posts, and 25,000 or 25,001 threads with one such post each
Thread1Shapes ==
    { [width |-> 1, n |-> 1, num_replies |-> 0],
      [width |-> 1, n |-> 1, num_replies |-> 10],
      [width |-> 1, n |-> 29, num_replies |-> 50],
      [width |-> 1, n |-> MAX_FULL_THREADS + 1, num_replies |-> 10],
      [width |-> MAX_FULL_THREADS, n |-> 1, num_replies |-> 10],
      [width |-> MAX_FULL_THREADS + 1, n |-> 1, num_replies |-> 10] }

OtherReplies == {0, 10}

MakeArchive(shape, replies) ==
    [ threads |->
        [t \in THREAD_IDS |->
            [id |-> t,
             num_replies |-> IF t = 1 THEN shape.num_replies ELSE replies[t],
             width |-> IF t = 1 THEN shape.width ELSE 1,
             board |-> BoardOf(t)]],
      posts |->
        [i \in POST_IDS |->
            [id |-> i,
             thread_id |-> ThreadOf(i),
             timestamp |-> TimeOf(i),
             country_code |-> CountryOf(i),
             n |-> IF i = 1 THEN shape.n ELSE 1]] ]

Archives ==
    { MakeArchive(shape, replies) :
        shape \in Thread1Shapes, replies \in [THREAD_IDS -> OtherReplies] }

\* how many archive rows a model post stands for
Mult(post) == post.n * archive.threads[post.thread_id].width

\* len(rows) of a list of rows, each standing for count archive rows
LenRows(rows) == SumSeq([i \in DOMAIN rows |-> rows[i].count])

\* the number of distinct archive threads among thread_ids
NumThreads(thread_ids) ==
    LET distinct == SetToSeq({thread_ids[i].thread_id : i \in DOMAIN thread_ids})
    IN  SumSeq([k \in DOMAIN distinct |-> archive.threads[distinct[k]].width])

(***************************************************************************)
(* The density filters.  A tuple of thread ids is a sequence of            *)
(* [thread_id, n]: n occurrences of the id (per archive thread it stands   *)
(* for).                                                                   *)
(***************************************************************************)
\* Counter(thread_ids)[id]
Counter(thread_ids, id) ==
    SumSeq([i \in DOMAIN thread_ids |->
                IF thread_ids[i].thread_id = id THEN thread_ids[i].n ELSE 0])

\* SELECT id, num_replies FROM threads WHERE id IN thread_ids GROUP BY id:
\* one row per distinct id that the table holds, here by ascending id
total_posts(thread_ids) ==
    LET found == {thread_ids[i].thread_id : i \in DOMAIN thread_ids}
                    \cap DOMAIN archive.threads
        order == SetToSeq(found)
    IN  [k \in DOMAIN order |->
            [id |-> order[k], num_replies |-> archive.threads[order[k]].num_replies]]

\* The pairs (count, num_replies), count <= num_replies <= 100 and
\* 100 * count / num_replies integral, for which count / num_replies * 100 in
\* IEEE-754 double arithmetic (Python's float) is below that integer:
\* 29 / 50 * 100 is 57.99999999999999.
RoundsBelow == {<<29, 50>>, <<29, 100>>, <<57, 100>>, <<58, 100>>}

\* DensityAtLeast with <= for >=
DensityAtMost(count, num_replies, percentage) ==
    count * 100 <= percentage * num_replies

\* float(count / num_replies * 100) >= float(percentage), for num_replies in
\* 1..100 and an integral percentage in 0..100.  The double differs from the
\* exact quotient by less than 1e-13, so it decides the comparison unless the
\* quotient is the percentage itself.
DensityAtLeast(count, num_replies, percentage) ==
    IF count * 100 = percentage * num_replies
    THEN <<count, num_replies>> \notin RoundsBelow
    ELSE count * 100 > percentage * num_replies

\* the result of a method: the exception it raised, if any, and its value
Returned(value) == [raised |-> "none", value |-> value]
Raised(exception) == [raised |-> exception, value |-> <<>>]

ThreadId(id) == [thread_id |-> id, n |-> 1]

\* the loop of filter_dense over the rows of total_posts
RECURSIVE dense_loop(_, _, _, _, _)
dense_loop(rows, thread_ids, percentage, length, qualified_threads) ==
    IF rows = <<>> THEN Returned(qualified_threads)
    ELSE LET total_post == Head(rows) IN
         IF total_post.num_replies >= length
         THEN IF total_post.num_replies = 0
              THEN Raised("ZeroDivisionError")
              ELSE IF DensityAtLeast(Counter(thread_ids, total_post.id),
                                     total_post.num_replies, percentage)
                   THEN dense_loop(Tail(rows), thread_ids, percentage, length,
                                   Append(qualified_threads, ThreadId(total_post.id)))
                   ELSE dense_loop(Tail(rows), thread_ids, percentage, length,
                                   qualified_threads)
         ELSE dense_loop(Tail(rows), thread_ids, percentage, length, qualified_threads)

filter_dense(thread_ids, percentage, length) ==
    dense_loop(total_posts(thread_ids), thread_ids, percentage, length, <<>>)

\* the loop of filter_dense_country over the rows of total_posts
RECURSIVE dense_country_loop(_, _, _, _)
dense_country_loop(rows, thread_ids, percentage, qualified_threads) ==
    IF rows = <<>> THEN Returned(qualified_threads)
    ELSE LET total_post == Head(rows) IN
         IF total_post.num_replies = 0
         THEN Raised("ZeroDivisionError")
         ELSE IF DensityAtLeast(Counter(thread_ids, total_post.id),
                                total_post.num_replies, percentage)
              THEN dense_country_loop(Tail(rows), thread_ids, percentage,
                                      Append(qualified_threads, ThreadId(total_post.id)))
              ELSE dense_country_loop(Tail(rows), thread_ids, percentage,
                                      qualified_threads)

filter_dense_country(thread_ids, percentage) ==
    dense_country_loop(total_posts(thread_ids), thread_ids, percentage, <<>>)

(***************************************************************************)
(* The query description.                                                  *)
(***************************************************************************)
OptionalKeys == {"random_amount", "country_flag", "copy_to"}
RandomAmounts == {0, 2}
CountryFlags == {"all", "NL", "europe"}
BodyQueries == {<<>>, <<"a", "/", "b">>}
SubjectQueries == {<<>>, <<"/", "c">>}
DensePercentages == {50, 58}
DenseLengths == {0, 5}
DenseCountryPercentages == {0, 50}
QueryBoards == {"v", "*"}
\* the boards named in a country search, which never reads the board
CountryBoards == {"v", "pol"}
MinDates == {0, 100}
MaxDates == {0, 100}
CopyTos == {"dest"}

\* dataset.get_available_processors(): the types of the processors that can
\* run on the dataset
available_processors == {"count-posts"}

\* the values of "next": no follow-on, and three of them, one of a type
\* that is not available
Nexts ==
    { <<>>,
      <<[type |-> "count-posts"], [type |-> "no-such-type"], [type |-> "count-posts"]>> }

\* Python's truth value of a number and of a string
Truthy(number) == number /= 0
NonEmpty(string) == Len(string) > 0

\* select_strategy with the country test before the random test
select_strategy_country_first(q) ==
    IF /\ "country_flag" \in q.keys
       /\ q.country_flag /= "all"
       /\ ~NonEmpty(q.body_query) THEN "country"
    ELSE IF "random_amount" \in q.keys /\ Truthy(q.random_amount) THEN "random"
    ELSE "string"

\* lines 65-72 of process: which execute_* method runs
select_strategy(q) ==
    IF "random_amount" \in q.keys /\ Truthy(q.random_amount) THEN "random"
    ELSE IF /\ "country_flag" \in q.keys
            /\ q.country_flag /= "all"
            /\ ~NonEmpty(q.body_query) THEN "country"
    ELSE "string"

\* keys: the optional keys that the parameter dict holds; the value of an
\* absent key is never read and is written 0 or ""
AllQueries ==
    { q \in [ keys : SUBSET OptionalKeys,
              random_amount : RandomAmounts,
              country_flag : CountryFlags \cup {""},
              body_query : BodyQueries,
              subject_query : SubjectQueries,
              full_thread : BOOLEAN,
              dense_threads : BOOLEAN,
              dense_percentage : DensePercentages,
              dense_length : DenseLengths,
              dense_country_percentage : DenseCountryPercentages,
              board : QueryBoards \cup CountryBoards,
              min_date : MinDates,
              max_date : MaxDates,
              copy_to : CopyTos \cup {""},
              next : Nexts ] :
        /\ "random_amount" \notin q.keys => q.random_amount = 0
        /\ ("country_flag" \in q.keys) = (q.country_flag /= "")
        /\ ("copy_to" \in q.keys) = (q.copy_to /= "") }

\* The parameters that the execution of q never reads are at their defaults.
DefaultThreadMode(q) ==
    /\ ~q.full_thread /\ ~q.dense_threads
DefaultDensity(q) ==
    /\ q.dense_percentage = 50 /\ q.dense_length = 5

DefaultDates(q) ==
    /\ q.min_date = 0 /\ q.max_date = 0

\* a string search for the exact posts, without follow-on and copy
PlainQuery(q) ==
    /\ DefaultThreadMode(q)
    /\ q.subject_query = <<>>
    /\ q.next = <<>> /\ "copy_to" \notin q.keys

Queries ==
    { q \in AllQueries :
        /\ q.next /= <<>> => "copy_to" \notin q.keys
        /\ select_strategy(q) = "random" =>
              DefaultThreadMode(q) /\ DefaultDensity(q)
                /\ q.dense_country_percentage = 0 /\ q.subject_query = <<>>
                /\ q.board \in QueryBoards
        /\ select_strategy(q) = "country" =>
              DefaultThreadMode(q) /\ DefaultDensity(q) /\ q.subject_query = <<>>
                /\ q.board \in CountryBoards
        /\ select_strategy(q) = "string" =>
              /\ q.dense_country_percentage = 0
              /\ q.board \in QueryBoards
              /\ ~DefaultDates(q) => PlainQuery(q)
              /\ "random_amount" \in q.keys => PlainQuery(q)
              /\ ~q.dense_threads => DefaultDensity(q) }

(***************************************************************************)
(* The store queries.                                                      *)
(***************************************************************************)
\* the country codes that the flag "europe" stands for in filter_on_country
EUROPE ==
    { "GB", "DE", "NL", "RU", "FI", "FR", "RO", "PL", "SE", "NO", "ES", "IE",
      "IT", "SI", "RS", "DK", "HR", "GR", "BG", "BE", "AT", "HU", "CH", "PT",
      "LT", "CZ", "EE", "UY", "LV", "SK", "MK", "UA", "IS", "BA", "CY", "GE",
      "LU", "ME", "AL", "MD", "IM", "EU", "BY", "MC", "AX", "KZ", "AM", "GG",
      "JE", "MT", "FO", "AZ", "LI", "AD" }

\* and in execute_country_query
EUROPE_QUERY ==
    { "GB", "DE", "NL", "RU", "FI", "FR", "RO", "PL", "SE", "NO", "ES", "IE",
      "IT", "SI", "RS", "DK", "HR", "GR", "BG", "BE", "AT", "HU", "CH", "PT",
      "LT", "CZ", "EE", "UY", "LV", "SK", "MK", "UA", "IS", "BA", "CY", "GE",
      "LU", "ME", "AL", "MD", "IM", "EU", "BY", "MC", "AX", "KZ", "AM", "GG",
      "JE", "MT", "FO", "AZ", "LI", "AD" }

\* country_predicate that never expands the flag
country_predicate_equality(country_flag, europe) ==
    [operator |-> "=", value |-> {country_flag}]

\* country_code <operator> %s: the operator and the codes bound to %s, the
\* tuple for "europe" and the flag itself otherwise
country_predicate(country_flag, europe) ==
    IF country_flag = "europe" THEN [operator |-> "IN", value |-> europe]
    ELSE [operator |-> "=", value |-> {country_flag}]

\* does a country code satisfy the predicate
satisfies(predicate, country_code) ==
    IF predicate.operator = "IN" THEN country_code \in predicate.value
    ELSE predicate.value = {country_code}

\* a row of posts_<prefix> standing for count archive rows
PostRow(i, count) ==
    [ id |-> i,
      thread_id |-> archive.posts[i].thread_id,
      timestamp |-> archive.posts[i].timestamp,
      country_code |-> archive.posts[i].country_code,
      count |-> count ]

\* the rows of the model posts in S, each complete, ascending in
\* (thread_id, id)
RowsOf(S) ==
    LET key(i) == archive.posts[i].thread_id * (MaxPost + 1) + i
        order == SetToSeq({key(i) : i \in S})
    IN  [k \in DOMAIN order |->
            LET i == CHOOSE j \in S : key(j) = order[k]
            IN  PostRow(i, Mult(archive.posts[i]))]

\* the sequences that list the elements of S once each
RECURSIVE Orderings(_)
Orderings(S) ==
    IF S = {} THEN {<<>>}
    ELSE UNION {{<<x>> \o rest : rest \in Orderings(S \ {x})} : x \in S}

\* fetch_posts: the posts with the given ids, ascending in (thread_id, id)
fetch_posts(post_ids) ==
    LET S == {post_ids[k].post_id : k \in DOMAIN post_ids} \cap POST_IDS
        rows == RowsOf(S)
    IN  [k \in DOMAIN rows |->
            LET at == CHOOSE j \in DOMAIN post_ids : post_ids[j].post_id = rows[k].id
            IN  PostRow(rows[k].id, post_ids[at].count)]

\* fetch_threads: every post of the given threads, ascending in (thread_id, id)
fetch_threads(thread_ids) ==
    LET T == {thread_ids[k].thread_id : k \in DOMAIN thread_ids}
    IN  RowsOf({i \in POST_IDS : archive.posts[i].thread_id \in T})

\* what fetch_sphinx can return: the rows (post_id, thread_id) of any set of
\* posts of the archive
SphinxRows(S) ==
    LET order == SetToSeq(S)
    IN  [k \in DOMAIN order |->
            [ post_id |-> order[k],
              thread_id |-> archive.posts[order[k]].thread_id,
              count |-> Mult(archive.posts[order[k]]) ]]

\* SELECT id FROM posts WHERE id IN post_ids AND country_code <operator> flag
filter_on_country(q, post_ids) ==
    SelectSeq(post_ids,
              LAMBDA p : satisfies(country_predicate(q.country_flag, EUROPE),
                                   archive.posts[p.post_id].country_code))

\* the posts that the scan of execute_random_query draws from
random_candidates(q) ==
    { i \in POST_IDS :
        /\ archive.threads[archive.posts[i].thread_id].board = q.board
        /\ archive.posts[i].timestamp >= q.min_date
        /\ q.max_date > 0 => archive.posts[i].timestamp <= q.max_date }

\* ORDER BY random() LIMIT random_amount: the draws, as the number of rows
\* taken of each model post
random_draws(q) ==
    LET C == random_candidates(q)
        order == SetToSeq(C)
        total == SumSeq([k \in DOMAIN order |-> Mult(archive.posts[order[k]])])
        limit == IF q.random_amount < total THEN q.random_amount ELSE total
    IN  { d \in [C -> 0..limit] :
            /\ \A i \in C : d[i] <= Mult(archive.posts[i])
            /\ SumSeq([k \in DOMAIN order |-> d[order[k]]]) = limit }

\* the posts that the scan of execute_country_query finds
country_candidates(q) ==
    { i \in POST_IDS :
        /\ archive.posts[i].timestamp >= q.min_date
        /\ q.max_date > 0 => archive.posts[i].timestamp <= q.max_date
        /\ satisfies(country_predicate(q.country_flag, EUROPE_QUERY),
                     archive.posts[i].country_code) }

(***************************************************************************)
(* The texts given to dataset.update_status.                               *)
(***************************************************************************)
SEARCHING == "Searching for matches"
FOUND == "Found matches. Collecting post data"
TIMED_OUT == "Your query timed out"
ENGINE_ERROR == "Error during query. 4CAT admins have been notified"
NOT_FOUND == "Query finished, but no results were found."
FILTERING_COUNTRY == "Filtering on country-specific posts"
FILTERING_DENSE == "Post data collected. Filtering dense threads"
COLLECTED == "Post data collected"
TOO_MANY == "Your query returned too many posts to fetch full thread data for"
FETCHING_RANDOM == "Fetching random posts"
QUERYING_COUNTRY == "Querying database for country-specific posts"
COLLECTED_COUNTRY == "Post data collected. Country-specific posts found."
WRITING == "Writing posts to result file"
FINISHED_RESULTS == "Query finished, results are available."
FINISHED_EMPTY == "Query finished, no results found."

Call(op, arg) == [op |-> op, arg |-> arg]

\* what a part of a method did: its return value, the calls it made, the
\* statuses it set and the exception it raised
Outcome(ret, made, texts, exception) ==
    [ret |-> ret, calls |-> made, status |-> texts, raised |-> exception]

(***************************************************************************)
(* execute_string_query: the query given to fetch_sphinx.  A text is the   *)
(* sequence of its characters.                                             *)
(***************************************************************************)
\* escape_for_sphinx that leaves the string as it is
escape_nothing(string) == string

\* string.replace("/", "\\/")
RECURSIVE escape_for_sphinx(_)
escape_for_sphinx(string) ==
    IF string = <<>> THEN <<>>
    ELSE IF Head(string) = "/"
    THEN <<"\\", "/">> \o escape_for_sphinx(Tail(string))
    ELSE <<Head(string)>> \o escape_for_sphinx(Tail(string))

AT_BODY == <<"@", "b", "o", "d", "y", " ">>
AT_SUBJECT == <<"@", "s", "u", "b", "j", "e", "c", "t", " ">>

\* separator.join(parts)
RECURSIVE join(_, _)
join(separator, parts) ==
    IF parts = <<>> THEN <<>>
    ELSE IF Len(parts) = 1 THEN Head(parts)
    ELSE Head(parts) \o separator \o join(separator, Tail(parts))

\* lines 149-154: the parts of the full-text match
match_parts(q) ==
    (IF NonEmpty(q.body_query)
     THEN <<AT_BODY \o escape_for_sphinx(q.body_query)>> ELSE <<>>)
    \o (IF NonEmpty(q.subject_query)
        THEN <<AT_SUBJECT \o escape_for_sphinx(q.subject_query)>> ELSE <<>>)

\* time_window with both clauses whatever the dates
time_window_always(q) ==
    [ where |-> <<"timestamp >= %s", "timestamp <= %s">>,
      replacements |-> <<q.min_date, q.max_date>> ]

\* lines 137-143: the clauses of the dates that are set
time_window(q) ==
    [ where |->
        (IF Truthy(q.min_date) THEN <<"timestamp >= %s">> ELSE <<>>)
        \o (IF Truthy(q.max_date) THEN <<"timestamp <= %s">> ELSE <<>>),
      replacements |->
        (IF Truthy(q.min_date) THEN <<q.min_date>> ELSE <<>>)
        \o (IF Truthy(q.max_date) THEN <<q.max_date>> ELSE <<>>) ]

\* string_where with a MATCH clause for each part of the match
string_where_two_matches(q) ==
    LET board == q.board /= "" /\ q.board /= "*"
        match == match_parts(q)
    IN  [ where |->
            time_window(q).where
            \o (IF board THEN <<"board = %s">> ELSE <<>>)
            \o [k \in DOMAIN match |-> "MATCH(%s)"],
          replacements |->
            time_window(q).replacements
            \o (IF board THEN <<q.board>> ELSE <<>>)
            \o match ]

\* lines 133-159: the where clauses, in order, and the value bound to each
string_where(q) ==
    LET board == q.board /= "" /\ q.board /= "*"
        match == match_parts(q)
    IN  [ where |->
            time_window(q).where
            \o (IF board THEN <<"board = %s">> ELSE <<>>)
            \o (IF match /= <<>> THEN <<"MATCH(%s)">> ELSE <<>>),
          replacements |->
            time_window(q).replacements
            \o (IF board THEN <<q.board>> ELSE <<>>)
            \o (IF match /= <<>> THEN <<join(<<" ">>, match)>> ELSE <<>>) ]

NoQuery == [where |-> <<>>, replacements |-> <<>>]

\* does post i of the index satisfy a clause with this value bound to it;
\* which posts the texts of a MATCH clause match is left open
clause_holds(clause, value, i) ==
    CASE clause = "timestamp >= %s" -> archive.posts[i].timestamp >= value
      [] clause = "timestamp <= %s" -> archive.posts[i].timestamp <= value
      [] clause = "board = %s" ->
            archive.threads[archive.posts[i].thread_id].board = value
      [] OTHER -> TRUE

\* the posts of the index that satisfy every clause but MATCH
index_candidates(sq) ==
    { i \in POST_IDS :
        \A k \in DOMAIN sq.where : clause_holds(sq.where[k], sq.replacements[k], i) }

(***************************************************************************)
(* execute_string_query, after fetch_sphinx returned a non-empty list.     *)
(***************************************************************************)
\* too_many with the ceiling off by one
too_many_off_by_one(rows) == LenRows(rows) > MAX_FULL_THREADS + 1

\* the guard of the full-thread query
too_many(rows) == LenRows(rows) > MAX_FULL_THREADS

\* post_ids = tuple([post["post_id"] for post in posts])
post_ids_of(rows) ==
    [k \in DOMAIN rows |-> [post_id |-> rows[k].post_id, count |-> rows[k].count]]

\* thread_ids = tuple([post["thread_id"] for post in posts])
thread_ids_of(rows) ==
    [k \in DOMAIN rows |->
        [ thread_id |-> rows[k].thread_id,
          n |-> rows[k].count \div archive.threads[rows[k].thread_id].width ]]

\* exact_posts without the country filter
exact_posts_all_countries(q, rows) ==
    Outcome(Rows(fetch_posts(post_ids_of(rows))),
            <<Call("fetch_posts", post_ids_of(rows))>>, <<COLLECTED>>, "none")

\* lines 195-212: the exact posts found by Sphinx
exact_posts(q, rows) ==
    LET post_ids == post_ids_of(rows)
        filtering == "country_flag" \in q.keys /\ q.country_flag /= "all"
        filtered == IF filtering THEN filter_on_country(q, post_ids) ELSE post_ids
        made == IF filtering
                THEN << Call("filter_on_country", post_ids),
                        Call("WHERE country_code",
                             country_predicate(q.country_flag, EUROPE)) >>
                ELSE <<>>
        texts == IF filtering THEN <<FILTERING_COUNTRY>> ELSE <<>>
    IN  IF filtering /\ filtered = <<>>
        THEN Outcome(None, made, texts \o <<NOT_FOUND>>, "none")
        ELSE Outcome(Rows(fetch_posts(filtered)),
                     made \o <<Call("fetch_posts", filtered)>>,
                     texts \o <<COLLECTED>>, "none")

\* guarded_threads that fetches the threads of all rows found
guarded_threads_of_rows(rows, thread_ids, made, texts) ==
    IF too_many(rows)
    THEN Outcome(None, made \o <<Call("job.finish", <<>>)>>,
                 texts \o <<TOO_MANY>>, "none")
    ELSE Outcome(Rows(fetch_threads(thread_ids_of(rows))),
                 made \o <<Call("fetch_threads", thread_ids_of(rows))>>,
                 texts \o <<COLLECTED>>, "none")

\* lines 228-238: the guard, then every post of the threads
guarded_threads(rows, thread_ids, made, texts) ==
    IF too_many(rows)
    THEN Outcome(None, made \o <<Call("job.finish", <<>>)>>,
                 texts \o <<TOO_MANY>>, "none")
    ELSE Outcome(Rows(fetch_threads(thread_ids)),
                 made \o <<Call("fetch_threads", thread_ids)>>,
                 texts \o <<COLLECTED>>, "none")

\* dense_applies without the test of body_query
dense_applies_without_body(q) == q.dense_threads

\* line 219: is the keyword density filter to be applied
dense_applies(q) == q.dense_threads /\ NonEmpty(q.body_query)

\* full_threads without the test for an empty tuple after filter_dense
full_threads_no_empty_test(q, rows) ==
    LET thread_ids == thread_ids_of(rows)
        dense == filter_dense(thread_ids, q.dense_percentage, q.dense_length)
        made == <<Call("filter_dense", thread_ids)>>
    IN  IF dense_applies(q)
        THEN IF dense.raised /= "none"
             THEN Outcome(None, made, <<FILTERING_DENSE>>, dense.raised)
             ELSE guarded_threads(rows, dense.value, made, <<FILTERING_DENSE>>)
        ELSE guarded_threads(rows, thread_ids, <<>>, <<>>)

\* lines 214-238: all posts of all threads found by Sphinx
full_threads(q, rows) ==
    LET thread_ids == thread_ids_of(rows)
        dense == filter_dense(thread_ids, q.dense_percentage, q.dense_length)
        made == <<Call("filter_dense", thread_ids)>>
    IN  IF dense_applies(q)
        THEN IF dense.raised /= "none"
             THEN Outcome(None, made, <<FILTERING_DENSE>>, dense.raised)
             ELSE IF dense.value = <<>>
             THEN Outcome(Rows(<<>>), made, <<FILTERING_DENSE>>, "none")
             ELSE guarded_threads(rows, dense.value, made, <<FILTERING_DENSE>>)
        ELSE guarded_threads(rows, thread_ids, <<>>, <<>>)

\* after_sphinx without the test for an empty list
after_sphinx_no_short_circuit(q, rows) ==
    IF ~q.full_thread /\ ~q.dense_threads
    THEN exact_posts(q, rows)
    ELSE full_threads(q, rows)

\* lines 185-242: what follows fetch_sphinx when it returned rows
after_sphinx(q, rows) ==
    IF rows = <<>>
    THEN Outcome(None, <<>>, <<NOT_FOUND>>, "none")
    ELSE IF ~q.full_thread /\ ~q.dense_threads
    THEN exact_posts(q, rows)
    ELSE full_threads(q, rows)

(***************************************************************************)
(* execute_country_query, given the rows that the scan returned.           *)
(***************************************************************************)
country_query(q, rows) ==
    LET thread_ids == thread_ids_of([k \in DOMAIN rows |->
                          [ post_id |-> rows[k].id, thread_id |-> rows[k].thread_id,
                            count |-> rows[k].count ]])
        dense == filter_dense_country(thread_ids, q.dense_country_percentage)
        scan == <<Call("WHERE country_code",
                       country_predicate(q.country_flag, EUROPE_QUERY))>>
        made == scan \o <<Call("filter_dense_country", thread_ids)>>
    IN  IF rows = <<>>
        THEN Outcome(Rows(<<>>), scan, <<QUERYING_COUNTRY>>, "none")
        ELSE IF Truthy(q.dense_country_percentage)
        THEN IF dense.raised /= "none"
             THEN Outcome(None, made, <<QUERYING_COUNTRY, FILTERING_DENSE>>, dense.raised)
             ELSE IF dense.value = <<>>
             THEN Outcome(Rows(<<>>), made, <<QUERYING_COUNTRY, FILTERING_DENSE>>, "none")
             ELSE Outcome(Rows(fetch_threads(dense.value)),
                          made \o <<Call("fetch_threads", dense.value)>>,
                          <<QUERYING_COUNTRY, FILTERING_DENSE, COLLECTED_COUNTRY>>,
                          "none")
        ELSE Outcome(Rows(rows), scan, <<QUERYING_COUNTRY, COLLECTED_COUNTRY>>, "none")

\* the other workers, not running
NoFilter == [pc |-> "none"]
NoRestart == [pc |-> "none"]

(***************************************************************************)
(* One execution of SphinxSearch.process.                                  *)
(***************************************************************************)
Idle == [thread_ids |-> <<>>, percentage |-> 0, length |-> 0]
Pending == [filter |-> "", result |-> Returned(<<>>)]

Init ==
    /\ query \in Queries
    /\ archive \in Archives
    /\ pc = "start"
    /\ strategy = ""
    /\ sphinx = "none"
    /\ posts = None
    /\ ids = <<>>
    /\ calls = <<>>
    /\ status = <<>>
    /\ results_file = FALSE
    /\ copy_file = "absent"
    /\ finished = <<>>
    /\ raised = "none"
    /\ d_in = Idle
    /\ d_out = Pending
    /\ sphinx_query = NoQuery
    /\ cf = NoFilter
    /\ rw = NoRestart
    /\ wa = NoFilter
    /\ sw = NoRestart

\* the end of an execute_* method: it returns to process, or its exception
\* leaves process
Return(outcome) ==
    /\ posts' = outcome.ret
    /\ calls' = calls \o outcome.calls
    /\ status' = status \o outcome.status
    /\ raised' = outcome.raised
    /\ pc' = IF outcome.raised = "none" THEN "returned" ELSE "raised"

\* lines 51-63: the connection to Sphinx, the parameters, the results path
Connect ==
    /\ pc = "start"
    /\ sphinx' = "open"
    /\ pc' = "select"
    /\ UNCHANGED <<query, archive, strategy, posts, ids, calls, status,
                   results_file, copy_file, finished, raised, d_in, d_out,
                   sphinx_query, cf, rw, wa, sw>>

\* lines 65-72: the call of the execute_* method
Select ==
    /\ pc = "select"
    /\ strategy' = select_strategy(query)
    /\ calls' = Append(calls, Call(select_strategy(query), <<>>))
    /\ pc' = select_strategy(query)
    /\ UNCHANGED <<query, archive, sphinx, posts, ids, status,
                   results_file, copy_file, finished, raised, d_in, d_out,
                   sphinx_query, cf, rw, wa, sw>>

\* SphinxTimeout that asks Sphinx again after the timeout
SphinxTimeoutRetry ==
    /\ pc = "string"
    /\ calls' = Append(calls, Call("fetch_sphinx", <<"OperationalError">>))
    /\ status' = status \o <<SEARCHING, TIMED_OUT>>
    /\ sphinx_query' = string_where(query)
    /\ UNCHANGED <<query, archive, pc, strategy, sphinx, posts, ids, results_file,
                   copy_file, finished, raised, d_in, d_out, cf, rw, wa, sw>>

\* lines 161-176: fetch_sphinx raises OperationalError
SphinxTimeout ==
    /\ pc = "string"
    /\ sphinx' = "closed"
    /\ Return(Outcome(None, <<Call("fetch_sphinx", <<"OperationalError">>)>>,
                      <<SEARCHING, TIMED_OUT>>, "none"))
    /\ sphinx_query' = string_where(query)
    /\ UNCHANGED <<query, archive, strategy, ids, results_file, copy_file,
                   finished, d_in, d_out, cf, rw, wa, sw>>

\* lines 161-169, 177-181: fetch_sphinx raises ProgrammingError
SphinxError ==
    /\ pc = "string"
    /\ sphinx' = "closed"
    /\ Return(Outcome(None, <<Call("fetch_sphinx", <<"ProgrammingError">>)>>,
                      <<SEARCHING, ENGINE_ERROR>>, "none"))
    /\ sphinx_query' = string_where(query)
    /\ UNCHANGED <<query, archive, strategy, ids, results_file, copy_file,
                   finished, d_in, d_out, cf, rw, wa, sw>>

\* lines 161-169, 183-242: fetch_sphinx returns the rows of some posts (of
\* none, too), the connection is closed, and what is found is fetched from
\* the archive
SphinxReturns ==
    /\ pc = "string"
    /\ \E S \in SUBSET index_candidates(string_where(query)) :
          LET rows == SphinxRows(S)
              then == after_sphinx(query, rows)
          IN  /\ ids' = rows
              /\ Return(Outcome(then.ret,
                                <<Call("fetch_sphinx", <<"rows">>)>> \o then.calls,
                                <<SEARCHING, FOUND>> \o then.status,
                                then.raised))
    /\ sphinx' = "closed"
    /\ sphinx_query' = string_where(query)
    /\ UNCHANGED <<query, archive, strategy, results_file, copy_file,
                   finished, d_in, d_out, cf, rw, wa, sw>>

\* lines 244-284: execute_random_query
RandomQuery ==
    /\ pc = "random"
    /\ \E draw \in random_draws(query) :
          LET order == SetToSeq({i \in DOMAIN draw : draw[i] > 0})
              post_ids == [k \in DOMAIN order |->
                              [post_id |-> order[k], count |-> draw[order[k]]]]
          IN  /\ ids' = post_ids
              /\ Return(Outcome(Rows(fetch_posts(post_ids)),
                                <<Call("fetch_posts", post_ids)>>,
                                <<FETCHING_RANDOM, COLLECTED>>, "none"))
    /\ UNCHANGED <<query, archive, strategy, sphinx, results_file, copy_file,
                   finished, d_in, d_out,
                   sphinx_query, cf, rw, wa, sw>>

\* lines 321-387: execute_country_query; the scan has no ORDER BY
CountryQuery ==
    /\ pc = "country"
    /\ \E order \in Orderings(country_candidates(query)) :
          LET rows == [k \in DOMAIN order |->
                          PostRow(order[k], Mult(archive.posts[order[k]]))]
          IN  /\ ids' = rows
              /\ Return(country_query(query, rows))
    /\ UNCHANGED <<query, archive, strategy, sphinx, results_file, copy_file,
                   finished, d_in, d_out,
                   sphinx_query, cf, rw, wa, sw>>

\* `if posts` of lines 75 and 82
has_posts(ret) == ~ret.is_none /\ ret.rows /= <<>>

\* write_status with `else` for `elif posts is not None`
write_status_else(ret) ==
    IF has_posts(ret) THEN <<WRITING, FINISHED_RESULTS>>
    ELSE <<FINISHED_EMPTY>>

\* lines 75-80: the statuses that process sets after the execute_* method
write_status(ret) ==
    IF has_posts(ret) THEN <<WRITING, FINISHED_RESULTS>>
    ELSE IF ~ret.is_none THEN <<FINISHED_EMPTY>>
    ELSE <<>>

\* num_posts = len(posts) if posts else 0
num_posts == IF has_posts(posts) THEN LenRows(posts.rows) ELSE 0

\* next_jobs that does not look at the available processors
next_jobs_any_type(q, n) ==
    IF n > 0
    THEN [k \in DOMAIN q.next |-> Call("queue.add_job", <<q.next[k].type>>)]
    ELSE <<>>

\* lines 84-96: the follow-on jobs that process queues, in order
next_jobs(q, n) ==
    IF n > 0
    THEN LET run == SelectSeq(q.next, LAMBDA next : next.type \in available_processors)
         IN  [k \in DOMAIN run |-> Call("queue.add_job", <<run[k].type>>)]
    ELSE <<>>

\* lines 74-96: the result file, the final status and the follow-on jobs
Write ==
    /\ pc = "returned"
    /\ status' = status \o write_status(posts)
    /\ IF has_posts(posts)
       THEN /\ calls' = Append(calls, Call("posts_to_csv", <<>>))
                            \o next_jobs(query, num_posts)
            /\ results_file' = TRUE
       ELSE /\ calls' = calls \o next_jobs(query, num_posts)
            /\ UNCHANGED results_file
    /\ pc' = "copy"
    /\ UNCHANGED <<query, archive, strategy, sphinx, posts, ids, copy_file,
                   finished, raised, d_in, d_out,
                   sphinx_query, cf, rw, wa, sw>>

\* lines 98-108: the copy of the result file
Copy ==
    /\ pc = "copy"
    /\ copy_file' = IF "copy_to" \in query.keys /\ query.copy_to /= ""
                    THEN IF results_file THEN "copy" ELSE "empty"
                    ELSE copy_file
    /\ pc' = "close"
    /\ UNCHANGED <<query, archive, strategy, sphinx, posts, ids, calls, status,
                   results_file, finished, raised, d_in, d_out,
                   sphinx_query, cf, rw, wa, sw>>

\* lines 110-114: close the connection; closing it again raises Error,
\* which is caught
Close ==
    /\ pc = "close"
    /\ sphinx' = "closed"
    /\ pc' = "finish"
    /\ UNCHANGED <<query, archive, strategy, posts, ids, calls, status,
                   results_file, copy_file, finished, raised, d_in, d_out,
                   sphinx_query, cf, rw, wa, sw>>

\* line 116: dataset.finish(num_rows=num_posts)
Finish ==
    /\ pc = "finish"
    /\ finished' = Append(finished, num_posts)
    /\ pc' = "done"
    /\ UNCHANGED <<query, archive, strategy, sphinx, posts, ids, calls, status,
                   results_file, copy_file, raised, d_in, d_out,
                   sphinx_query, cf, rw, wa, sw>>

Next ==
    \/ Connect
    \/ Select
    \/ SphinxTimeout
    \/ SphinxError
    \/ SphinxReturns
    \/ RandomQuery
    \/ CountryQuery
    \/ Write
    \/ Copy
    \/ Close
    \/ Finish

Spec == Init /\ [][Next]_vars

(***************************************************************************)
(* The density filters on their own: filter_dense and filter_dense_country *)
(* applied once to a tuple of thread ids.                                  *)
(***************************************************************************)
MaxLen == 2

Occurrences == {1, 4, 5, 29}
Percentages == {0, 50, 58, 100}
Lengths == {0, 5, 11}

\* the tuples of at most MaxLen entries
ThreadIdTuples ==
    UNION { [1..len -> [thread_id : THREAD_IDS, n : Occurrences]] : len \in 0..MaxLen }

DenseInputs ==
    [thread_ids : ThreadIdTuples, percentage : Percentages, length : Lengths]

DefaultQuery ==
    CHOOSE q \in Queries :
        /\ q.keys = {} /\ q.body_query = <<>> /\ q.subject_query = <<>>
        /\ q.next = <<>>
        /\ q.min_date = 0 /\ q.max_date = 0
        /\ ~q.full_thread /\ ~q.dense_threads

InitDense ==
    /\ d_in \in DenseInputs
    /\ archive \in Archives
    /\ d_out = Pending
    /\ pc = "dense"
    /\ query = DefaultQuery
    /\ strategy = ""
    /\ sphinx = "none"
    /\ posts = None
    /\ ids = <<>>
    /\ calls = <<>>
    /\ status = <<>>
    /\ results_file = FALSE
    /\ copy_file = "absent"
    /\ finished = <<>>
    /\ raised = "none"
    /\ sphinx_query = NoQuery
    /\ cf = NoFilter
    /\ rw = NoRestart
    /\ wa = NoFilter
    /\ sw = NoRestart

ApplyFilterDense ==
    /\ pc = "dense"
    /\ d_out' = [ filter |-> "filter_dense",
                  result |-> filter_dense(d_in.thread_ids, d_in.percentage,
                                          d_in.length) ]
    /\ pc' = "filtered"
    /\ UNCHANGED <<query, archive, strategy, sphinx, posts, ids, calls, status,
                   results_file, copy_file, finished, raised, d_in,
                   sphinx_query, cf, rw, wa, sw>>

ApplyFilterDenseCountry ==
    /\ pc = "dense"
    /\ d_out' = [ filter |-> "filter_dense_country",
                  result |-> filter_dense_country(d_in.thread_ids, d_in.percentage) ]
    /\ pc' = "filtered"
    /\ UNCHANGED <<query, archive, strategy, sphinx, posts, ids, calls, status,
                   results_file, copy_file, finished, raised, d_in,
                   sphinx_query, cf, rw, wa, sw>>

NextDense ==
    \/ ApplyFilterDense
    \/ ApplyFilterDenseCountry

SpecDense == InitDense /\ [][NextDense]_vars

(***************************************************************************)
(* The query for Sphinx on its own: lines 133-159 of execute_string_query  *)
(* applied once to a query description with any text in body_query and     *)
(* subject_query.                                                          *)
(***************************************************************************)
MaxString == 3

Characters == {"a", "/", "\\"}

\* the texts of at most MaxString characters
Strings == UNION { [1..len -> Characters] : len \in 0..MaxString }

InitMatch ==
    /\ query \in { [DefaultQuery EXCEPT !.body_query = body,
                                        !.subject_query = subject,
                                        !.board = board,
                                        !.min_date = min_date,
                                        !.max_date = max_date] :
                      body \in Strings, subject \in Strings, board \in QueryBoards,
                      min_date \in MinDates, max_date \in MaxDates }
    /\ archive \in {CHOOSE a \in Archives : TRUE}
    /\ pc = "match"
    /\ strategy = ""
    /\ sphinx = "none"
    /\ posts = None
    /\ ids = <<>>
    /\ calls = <<>>
    /\ status = <<>>
    /\ results_file = FALSE
    /\ copy_file = "absent"
    /\ finished = <<>>
    /\ raised = "none"
    /\ d_in = Idle
    /\ d_out = Pending
    /\ sphinx_query = NoQuery
    /\ cf = NoFilter
    /\ rw = NoRestart
    /\ wa = NoFilter
    /\ sw = NoRestart

BuildMatch ==
    /\ pc = "match"
    /\ sphinx_query' = string_where(query)
    /\ pc' = "matched"
    /\ UNCHANGED <<query, archive, strategy, sphinx, posts, ids, calls, status,
                   results_file, copy_file, finished, raised, d_in, d_out, cf, rw, wa, sw>>

NextMatch == BuildMatch

SpecMatch == InitMatch /\ [][NextMatch]_vars

(***************************************************************************)
(* The other workers are not part of an execution of SphinxSearch.process: *)
(* while one of them runs, the variables of the query engine rest.         *)
(***************************************************************************)
search_vars == <<query, archive, pc, strategy, sphinx, posts, ids, calls, status,
                 results_file, copy_file, finished, raised, d_in, d_out,
                 sphinx_query>>

SearchRests ==
    /\ query = DefaultQuery
    /\ archive \in {CHOOSE a \in Archives : TRUE}
    /\ pc = "rest"
    /\ strategy = ""
    /\ sphinx = "none"
    /\ posts = None
    /\ ids = <<>>
    /\ calls = <<>>
    /\ status = <<>>
    /\ results_file = FALSE
    /\ copy_file = "absent"
    /\ finished = <<>>
    /\ raised = "none"
    /\ d_in = Idle
    /\ d_out = Pending
    /\ sphinx_query = NoQuery

(***************************************************************************)
(* ColumnFilter, processors/filtering/column_filter.py.  A text is the     *)
(* sequence of its characters; the character "D" stands for the nineteen   *)
(* characters of the timestamp 1970-01-01 00:00:07.                        *)
(***************************************************************************)
MaxItems == 2

\* str.split(sep): the parts of text between the separators
RECURSIVE split(_, _)
split(text, sep) ==
    IF \A k \in DOMAIN text : text[k] /= sep
    THEN <<text>>
    ELSE LET k == CHOOSE i \in DOMAIN text :
                      text[i] = sep /\ \A j \in 1..(i - 1) : text[j] /= sep
         IN  <<SubSeq(text, 1, k - 1)>> \o split(SubSeq(text, k + 1, Len(text)), sep)

\* str.strip(): without the leading and trailing blanks
RECURSIVE strip(_)
strip(text) ==
    IF text = <<>> THEN text
    ELSE IF Head(text) = " " THEN strip(Tail(text))
    ELSE IF text[Len(text)] = " " THEN strip(SubSeq(text, 1, Len(text) - 1))
    ELSE text

DIGITS == <<"0", "1", "2", "3", "4", "5", "6", "7", "8", "9">>

\* do float(text) and int(text) return (they raise ValueError otherwise);
\* both skip blanks around the number
is_number(text) ==
    /\ strip(text) /= <<>>
    /\ \A k \in DOMAIN strip(text) : strip(text)[k] \in Range(DIGITS)

\* float(text) and int(text), where they return
RECURSIVE number(_)
number(text) ==
    LET digits == strip(text)
        last == CHOOSE d \in DOMAIN DIGITS : DIGITS[d] = digits[Len(digits)]
    IN  IF digits = <<>> THEN 0
        ELSE 10 * number(SubSeq(digits, 1, Len(digits) - 1)) + (last - 1)

\* re.match(r"[0-9]{4}-[0-9]{2}-[0-9]{2} [0-9]{2}:[0-9]{2}:[0-9]{2}", text):
\* the text begins with a timestamp
date_format(text) == text /= <<>> /\ Head(text) = "D"

\* does datetime.strptime(text, "%Y-%m-%d %H:%M:%S") return: the text is a
\* timestamp and nothing more (ValueError otherwise)
is_timestamp(text) == text = <<"D">>

\* datetime.strptime(text, ...).timestamp(), where it returns
strptime(text) == 7

\* value in text: value is a substring of text
contains(value, text) ==
    \E k \in 0..(Len(text) - Len(value)) :
        SubSeq(text, k + 1, k + Len(value)) = value

\* a match value is a str until lines 145-168 replace it with a number
Str(text) == [is_str |-> TRUE, text |-> text, number |-> 0]
Num(n) == [is_str |-> FALSE, text |-> <<>>, number |-> n]

\* match_function (line 141) applied to a list of booleans
match_function(match_multiple, list) ==
    IF match_multiple = "any"
    THEN \E k \in DOMAIN list : list[k]
    ELSE \A k \in DOMAIN list : list[k]

\* lines 212-239: does the item match, its column being the text `column`
matches(match_style, match_multiple, match_values, column, date_compare) ==
    LET each(test(_)) == [k \in DOMAIN match_values |-> test(match_values[k])]
        exact(v) == column = v.text
        exact_not(v) == column /= v.text
        has(v) == contains(v.text, column)
        has_not(v) == ~contains(v.text, column)
        after(v) == v.number <= date_compare
        before(v) == v.number >= date_compare
        greater(v) == v.number < number(column)
        less(v) == v.number > number(column)
    IN  CASE match_style = "exact" -> match_function(match_multiple, each(exact))
          [] match_style = "exact-not" -> match_function(match_multiple, each(exact_not))
          [] match_style = "contains" -> match_function(match_multiple, each(has))
          [] match_style = "contains-not" -> match_function(match_multiple, each(has_not))
          [] match_style = "after" -> match_function(match_multiple, each(after))
          [] match_style = "before" -> match_function(match_multiple, each(before))
          [] match_style = "greater-than" ->
                is_number(column) /\ match_function(match_multiple, each(greater))
          [] match_style = "less-than" ->
                is_number(column) /\ match_function(match_multiple, each(less))
          [] OTHER -> FALSE

\* the texts given to dataset.update_status
FILTER_STATUS ==
    [searching |-> "Searching for matching posts",
     non_numeric |-> "Cannot do '%s' comparison with non-numeric value(s)",
     not_dates |-> "Cannot do '%s' comparison with value(s) that are not dates",
     invalid_date |-> "Invalid date value '%s', cannot determine if before or after",
     no_items |-> "No items matched your criteria"]

\* lines 138-169 of filter_items: the match values, the status of an abort
\* ("" = none) and the exception raised ("none" = none)
criteria(parameters) ==
    LET Criteria(values, abort, exception) ==
            [values |-> values, abort |-> abort, exception |-> exception]
        parts == split(parameters.match_value, ",")
        match_values == [k \in DOMAIN parts |-> strip(parts[k])]
        strs == [k \in DOMAIN parts |-> Str(match_values[k])]
        numbers == [k \in DOMAIN parts |-> Num(number(match_values[k]))]
        stamps == [k \in DOMAIN parts |-> Num(strptime(match_values[k]))]
        all(test(_)) == \A k \in DOMAIN parts : test(match_values[k])
        \* line 169: ' & '.join(match_values) takes a list of str
        log(values) ==
            IF \A k \in DOMAIN values : values[k].is_str
            THEN Criteria(values, "", "none")
            ELSE Criteria(values, "", "TypeError")
    IN  IF parameters.match_style \in {"less-than", "greater-than"}
        THEN IF all(is_number) THEN log(numbers)
             ELSE Criteria(strs, FILTER_STATUS.non_numeric, "none")
        ELSE IF parameters.match_style \in {"after", "before"}
        THEN IF ~all(date_format)
             THEN IF all(is_number) THEN log(numbers)
                  ELSE Criteria(strs, FILTER_STATUS.not_dates, "none")
             ELSE IF all(is_timestamp) THEN log(stamps)
                  ELSE Criteria(strs, "", "ValueError")
        ELSE log(strs)

\* lines 195-206: date_compare of an item, the status of an abort and the
\* exception raised
date_compare(match_style, column) ==
    LET DateCompare(value, abort, exception) ==
            [value |-> value, abort |-> abort, exception |-> exception]
    IN
    IF match_style \notin {"before", "after"} THEN DateCompare(0, "", "none")
    ELSE IF date_format(column)
    THEN IF is_timestamp(column) THEN DateCompare(strptime(column), "", "none")
         ELSE DateCompare(0, "", "ValueError")
    ELSE IF is_number(column) THEN DateCompare(number(column), "", "none")
         ELSE DateCompare(0, FILTER_STATUS.invalid_date, "none")

MATCH_STYLES == {"exact", "exact-not", "contains", "contains-not", "less-than",
                 "greater-than", "before", "after"}

\* the texts of the option match-value
MatchValues == { <<>>, <<"5">>, <<"7">>, <<"5", ",", "7">>, <<" ", "7">>,
                 <<"x">>, <<"5", ",", "x">>, <<"D">>, <<"D", ",", "5">>,
                 <<"D", "x">> }

\* the texts in the column of a source item
ColumnTexts == { <<>>, <<"5">>, <<"7">>, <<"5", "7">>, <<"x">>, <<"D">> }

\* the source items, in the order of iterate_items: the value in the column
\* of each (of the mapped item)
Items == UNION { [1..len -> ColumnTexts] : len \in 0..MaxItems }

InitFilter ==
    /\ SearchRests
    /\ rw = NoRestart
    /\ wa = NoFilter
    /\ sw = NoRestart
    /\ cf \in { [pc |-> "process",
                 parameters |-> [match_style |-> match_style,
                                 match_value |-> match_value,
                                 match_multiple |-> match_multiple],
                 items |-> items,
                 map_item |-> map_item,
                 extension |-> extension,
                 match_values |-> <<>>,
                 processed_items |-> 0,
                 results_file |-> FALSE,
                 written |-> <<>>,
                 status |-> <<>>,
                 finished |-> <<>>,
                 raised |-> "none"] :
                   match_style \in MATCH_STYLES, match_value \in MatchValues,
                   match_multiple \in {"any", "all"}, items \in Items,
                   map_item \in BOOLEAN, extension \in {"csv", "ndjson", "html"} }

\* process, lines 101-124, until the loop asks the generator for the first
\* item: the result file is opened for writing
FilterProcess ==
    /\ cf.pc = "process"
    /\ IF cf.extension \in {"csv", "ndjson"}
       THEN cf' = [cf EXCEPT !.pc = "filter_items", !.results_file = TRUE]
       ELSE cf' = [cf EXCEPT !.pc = "done", !.raised = "NotImplementedError"]
    /\ UNCHANGED <<search_vars, rw, wa, sw>>

\* filter_items, lines 135-176: runs when the first item is asked for.  A
\* return ends the generator, and the loop of process with it
FilterCriteria ==
    /\ cf.pc = "filter_items"
    /\ LET c == criteria(cf.parameters)
           searching == Append(cf.status, [text |-> FILTER_STATUS.searching, is_final |-> FALSE])
       IN  IF c.abort /= ""
           THEN cf' = [cf EXCEPT !.pc = "returned",
                                 !.status = Append(searching, [text |-> c.abort, is_final |-> TRUE]),
                                 !.finished = Append(@, 0)]
           ELSE IF c.exception /= "none"
           THEN cf' = [cf EXCEPT !.pc = "done", !.status = searching,
                                 !.raised = c.exception]
           ELSE cf' = [cf EXCEPT !.pc = "iterate", !.status = searching,
                                 !.match_values = c.values]
    /\ UNCHANGED <<search_vars, rw, wa, sw>>

\* filter_items, lines 178-243, for one source item, and lines 111-116 or
\* 119-122 of process for the item if it is yielded
FilterItem ==
    /\ cf.pc = "iterate"
    /\ cf.processed_items < Len(cf.items)
    /\ LET id == cf.processed_items + 1
           column == cf.items[id]
           d == date_compare(cf.parameters.match_style, column)
       IN  IF ~cf.map_item
           THEN cf' = [cf EXCEPT !.pc = "done", !.raised = "UnboundLocalError"]
           ELSE IF d.exception /= "none"
           THEN cf' = [cf EXCEPT !.pc = "done", !.processed_items = id,
                                 !.raised = d.exception]
           ELSE IF d.abort /= ""
           THEN cf' = [cf EXCEPT !.pc = "returned", !.processed_items = id,
                                 !.status = Append(@, [text |-> d.abort, is_final |-> TRUE]),
                                 !.finished = Append(@, 0)]
           ELSE IF matches(cf.parameters.match_style, cf.parameters.match_multiple,
                           cf.match_values, column, d.value)
           THEN cf' = [cf EXCEPT !.processed_items = id, !.written = Append(@, id)]
           ELSE cf' = [cf EXCEPT !.processed_items = id]
    /\ UNCHANGED <<search_vars, rw, wa, sw>>

\* process, lines 126-129, once the generator is exhausted
FilterFinish ==
    /\ \/ cf.pc = "returned"
       \/ cf.pc = "iterate" /\ cf.processed_items = Len(cf.items)
    /\ LET written_posts == Len(cf.written)
       IN  cf' = [cf EXCEPT
                    !.pc = "done",
                    !.status = IF written_posts = 0
                               THEN Append(@, [text |-> FILTER_STATUS.no_items, is_final |-> TRUE]) ELSE @,
                    !.finished = Append(@, written_posts)]
    /\ UNCHANGED <<search_vars, rw, wa, sw>>

NextFilter ==
    \/ FilterProcess
    \/ FilterCriteria
    \/ FilterItem
    \/ FilterFinish

SpecFilter == InitFilter /\ [][NextFilter]_vars

(***************************************************************************)
(* The restart worker, backend/workers/restart_4cat.py: one execution of   *)
(* FourcatRestarterAndUpgrader.work, with the process it launches and the  *)
(* interruption of the worker by the daemon.                               *)
(***************************************************************************)
MaxAttempts == 2
MaxWait == 2

\* the lines written to restart.log
RESTART_LOG ==
    [restarted |-> "4CAT restarted.",
     version |-> "4CAT is now running version %s.",
     backend |-> "<restart-backend.log>",
     success |-> "[Worker] Success. 4CAT restarted and/or upgraded.",
     initiating |-> "Initiating 4CAT restart worker",
     unexpected |-> "Unexpected outcome of restart call (%s).",
     error |-> "[Worker] Error while restarting 4CAT."]

\* is_resuming that takes a second attempt for the first
is_resuming_after_one(attempts) == attempts > 1

\* line 46: is the worker checking the result after a restart
is_resuming(attempts) == attempts > 0

InitRestart ==
    /\ SearchRests
    /\ cf = NoFilter
    /\ wa = NoFilter
    /\ sw = NoRestart
    /\ rw \in { [pc |-> "work",
                 attempts |-> attempts,
                 remote_id |-> remote_id,
                 interrupted |-> FALSE,
                 process |-> "none",
                 exit_code |-> exit_code,
                 returncode |-> "None",
                 waits |-> 0,
                 launched |-> <<>>,
                 log |-> <<>>,
                 log_stream_restart |-> "none",
                 log_stream_backend |-> "none",
                 finished |-> 0,
                 raised |-> "none"] :
                   attempts \in 0..MaxAttempts,
                   remote_id \in {"upgrade", "restart"},
                   exit_code \in {"0", "1"} }

\* lines 46-76: the worker runs again after 4CAT was restarted
Resume ==
    /\ rw.pc = "work"
    /\ is_resuming(rw.attempts)
    /\ rw' = [rw EXCEPT !.pc = "done",
                        !.log = @ \o <<RESTART_LOG.restarted, RESTART_LOG.version,
                                      RESTART_LOG.backend, RESTART_LOG.success>>,
                        !.log_stream_restart = "closed",
                        !.finished = @ + 1]
    /\ UNCHANGED <<search_vars, cf, wa, sw>>

\* lines 46-57 and 78-105: the first attempt launches the command
Initiate ==
    /\ rw.pc = "work"
    /\ ~is_resuming(rw.attempts)
    /\ LET command == IF rw.remote_id = "upgrade"
                      THEN "helper-scripts/migrate.py"
                      ELSE "4cat-daemon.py force-restart"
       IN  rw' = [rw EXCEPT !.pc = "wait",
                            !.log = Append(@, RESTART_LOG.initiating),
                            !.log_stream_restart = "open",
                            !.log_stream_backend = "open",
                            !.launched = Append(@, command),
                            !.process = "running"]
    /\ UNCHANGED <<search_vars, cf, wa, sw>>

\* the daemon interrupts the worker (it sets self.interrupted)
Interrupt ==
    /\ rw.pc /= "done"
    /\ ~rw.interrupted
    /\ rw' = [rw EXCEPT !.interrupted = TRUE]
    /\ UNCHANGED <<search_vars, cf, wa, sw>>

\* the launched process exits
ProcessExits ==
    /\ rw.process = "running"
    /\ rw' = [rw EXCEPT !.process = "exited"]
    /\ UNCHANGED <<search_vars, cf, wa, sw>>

\* lines 107-115: one turn of the loop, the test of self.interrupted and
\* process.wait(1)
Wait ==
    /\ rw.pc = "wait"
    /\ IF rw.interrupted
       THEN rw' = [rw EXCEPT !.pc = "after"]
       ELSE IF rw.process = "exited"
       THEN rw' = [rw EXCEPT !.pc = "after", !.returncode = rw.exit_code,
                             !.log_stream_backend = "closed"]
       ELSE /\ rw.waits < MaxWait
            /\ rw' = [rw EXCEPT !.waits = @ + 1]
    /\ UNCHANGED <<search_vars, cf, wa, sw>>

\* AfterLoop that reports the failure whatever process.returncode is
AfterLoopAlwaysFails ==
    /\ rw.pc = "after"
    /\ rw' = [rw EXCEPT !.pc = "done",
                        !.log = @ \o <<RESTART_LOG.unexpected, RESTART_LOG.error>>,
                        !.finished = @ + 1,
                        !.log_stream_restart = "closed"]
    /\ UNCHANGED <<search_vars, cf, wa, sw>>

\* lines 117-137: after the loop, with the except and finally clauses
AfterLoop ==
    /\ rw.pc = "after"
    /\ IF rw.returncode /= "None"
       THEN rw' = [rw EXCEPT !.pc = "done",
                             !.log = @ \o <<RESTART_LOG.unexpected, RESTART_LOG.error>>,
                             !.finished = @ + 1,
                             !.log_stream_restart = "closed"]
       ELSE rw' = [rw EXCEPT !.pc = "done",
                             !.raised = "WorkerInterruptedException",
                             !.log_stream_restart = "closed"]
    /\ UNCHANGED <<search_vars, cf, wa, sw>>

NextRestart ==
    \/ Resume
    \/ Initiate
    \/ Interrupt
    \/ ProcessExits
    \/ Wait
    \/ AfterLoop

SpecRestart == InitRestart /\ [][NextRestart]_vars

(***************************************************************************)
(* WriteAnnotations, processors/filtering/write_annotations.py: one run of *)
(* the generator filter_items.  annotation_fields is the list of the       *)
(* labels of its values; annotations gives, for an item id, whether the    *)
(* item is annotated and the value saved under each label, a str or a list *)
(* of str.                                                                 *)
(***************************************************************************)
\* annotation_value that leaves the letters as they are
annotation_value_as_saved(val, to_lowercase) ==
    IF val.is_list THEN join(<<",", " ">>, val.list) ELSE val.text

\* lines 79-86: the text written for a saved annotation
annotation_value(val, to_lowercase) ==
    LET lower(text) ==
            [k \in DOMAIN text |->
                CASE text[k] = "A" -> "a"
                  [] text[k] = "B" -> "b"
                  [] OTHER -> text[k]]
        joined == IF val.is_list THEN join(<<",", " ">>, val.list) ELSE val.text
    IN  IF to_lowercase THEN lower(joined) ELSE joined

InitAnnotate ==
    /\ SearchRests
    /\ cf = NoFilter
    /\ rw = NoRestart
    /\ sw = NoRestart
    /\ LET Labels == {"topic", "tags"}
           Absent == [present |-> FALSE, is_list |-> FALSE, text |-> <<>>, list |-> <<>>]
           Saved == { [present |-> TRUE, is_list |-> FALSE, text |-> <<"A", "b">>,
                       list |-> <<>>],
                      [present |-> TRUE, is_list |-> TRUE, text |-> <<>>,
                       list |-> << <<"A">>, <<"b", "B">> >>] }
           Unannotated == [annotated |-> FALSE, values |-> [l \in Labels |-> Absent]]
           Annotated == { [annotated |-> TRUE, values |-> v] :
                            v \in [Labels -> Saved \cup {Absent}] }
       IN  wa \in { [pc |-> "filter_items",
                     annotation_fields |-> fields,
                     annotations |-> annotations,
                     items |-> items,
                     to_lowercase |-> to_lowercase,
                     post_count |-> 0,
                     yielded |-> <<>>,
                     status |-> <<>>,
                     finished |-> <<>>] :
                       fields \in UNION { [1..n -> Labels] : n \in 0..2 },
                       annotations \in [1..MaxItems -> Annotated \cup {Unannotated}],
                       items \in 0..MaxItems,
                       to_lowercase \in BOOLEAN }

\* lines 48-65: runs when the first item is asked for
AnnotateStart ==
    /\ wa.pc = "filter_items"
    /\ IF wa.annotation_fields = <<>>
       THEN wa' = [wa EXCEPT
                     !.pc = "returned",
                     !.status = Append(@, "This dataset has no annotation fields saved."),
                     !.finished = Append(@, 0)]
       ELSE IF \A id \in DOMAIN wa.annotations : ~wa.annotations[id].annotated
       THEN wa' = [wa EXCEPT
                     !.pc = "returned",
                     !.status = Append(@, "This dataset has no annotations saved."),
                     !.finished = Append(@, 0)]
       ELSE wa' = [wa EXCEPT !.pc = "iterate"]
    /\ UNCHANGED <<search_vars, cf, rw, sw>>

\* lines 67-101 for one source item: the item is yielded with an entry for
\* every label of annotation_labels
AnnotateItem ==
    /\ wa.pc = "iterate"
    /\ wa.post_count < wa.items
    /\ LET id == wa.post_count + 1
           annotation_labels == {wa.annotation_fields[k] : k \in DOMAIN wa.annotation_fields}
           post_annotations == wa.annotations[id].values
           entry(field) ==
               IF wa.annotations[id].annotated /\ post_annotations[field].present
               THEN annotation_value(post_annotations[field], wa.to_lowercase)
               ELSE <<>>
           original_item == [id |-> id,
                             fields |-> [field \in annotation_labels |-> entry(field)]]
       IN  wa' = [wa EXCEPT !.post_count = id,
                            !.yielded = Append(@, original_item)]
    /\ UNCHANGED <<search_vars, cf, rw, sw>>

SpecAnnotate == InitAnnotate /\ [][AnnotateStart \/ AnnotateItem]_vars

(***************************************************************************)
(* The stringQuery workers, backend/workers/string_query.py: max_workers   *)
(* workers, each running work once, on a queue of "query" jobs.  The       *)
(* queue is backend.lib.queue: get_job returns a job that no worker has    *)
(* claimed, or None when there is none; claim_job marks the job as claimed *)
(* by the worker, or raises JobClaimedException when it is claimed         *)
(* already.                                                                *)
(***************************************************************************)
max_workers == 3
MaxJobs == 2

InitWorkers ==
    /\ SearchRests
    /\ cf = NoFilter
    /\ rw = NoRestart
    /\ wa = NoFilter
    /\ sw \in { [claimed_by |-> [job \in 1..jobs |-> 0],
                 workers |-> [w \in 1..max_workers |->
                                 [pc |-> "work", job |-> 0, claim |-> "none",
                                  executed |-> FALSE, results |-> "none",
                                  query_finish |-> 0, finish_job |-> 0,
                                  raised |-> "none"]]] :
                   jobs \in 0..MaxJobs }

\* lines 37-41: the worker asks the queue for a job; without one it sleeps
GetJob(w) ==
    /\ sw.workers[w].pc = "work"
    /\ LET unclaimed == {job \in DOMAIN sw.claimed_by : sw.claimed_by[job] = 0}
       IN  IF unclaimed = {}
           THEN sw' = [sw EXCEPT !.workers[w].pc = "done"]
           ELSE \E job \in unclaimed :
                   sw' = [sw EXCEPT !.workers[w].pc = "claim",
                                    !.workers[w].job = job]
    /\ UNCHANGED <<search_vars, cf, rw, wa>>

\* lines 44-47: the worker claims the job, or returns when another has
ClaimJob(w) ==
    /\ sw.workers[w].pc = "claim"
    /\ LET job == sw.workers[w].job
       IN  IF sw.claimed_by[job] = 0
           THEN sw' = [sw EXCEPT !.claimed_by[job] = w,
                                 !.workers[w].pc = "execute",
                                 !.workers[w].claim = "claimed"]
           ELSE sw' = [sw EXCEPT !.workers[w].pc = "done",
                                 !.workers[w].claim = "JobClaimedException"]
    /\ UNCHANGED <<search_vars, cf, rw, wa>>

\* lines 49-80: the worker reads the parameters of the query and calls
\* execute_query (line 70) with two arguments, col and str_query; the
\* method (line 84) has three parameters without a default, body_query,
\* subject_query and full_thread, so the call raises TypeError before the
\* method runs, and lines 73-80 are not reached
ExecuteQuery(w) ==
    /\ sw.workers[w].pc = "execute"
    /\ sw' = [sw EXCEPT !.workers[w].pc = "done",
                        !.workers[w].raised = "TypeError"]
    /\ UNCHANGED <<search_vars, cf, rw, wa>>

SpecWorkers ==
    InitWorkers /\ [][\E w \in 1..max_workers :
                          GetJob(w) \/ ClaimJob(w) \/ ExecuteQuery(w)]_vars

(***************************************************************************)
(* ColumnFilter.get_options, processors/filtering/column_filter.py: calls  *)
(* of the class method one after the other.  cf.column is the "column"     *)
(* entry of the class attribute ColumnFilter.options, which the method     *)
(* reads as cls.options; a parent dataset is the set of its columns;       *)
(* cf.calls lists the parent_dataset of every call made.                   *)
(***************************************************************************)
MaxCalls == 3

InitOptions ==
    /\ SearchRests
    /\ rw = NoRestart
    /\ wa = NoFilter
    /\ sw = NoRestart
    /\ cf = [pc |-> "options",
             column |-> [choice |-> FALSE, options |-> {}],
             returned |-> [choice |-> FALSE, options |-> {}],
             calls |-> <<>>]

\* lines 77-93: one call; options is cls.options itself, not a copy of it
GetOptions ==
    /\ cf.pc = "options"
    /\ Len(cf.calls) < MaxCalls
    /\ \E parent_dataset \in
            {[is_none |-> TRUE, columns |-> {}]}
              \cup {[is_none |-> FALSE, columns |-> columns] :
                       columns \in SUBSET {"author", "body", "id"}} :
          LET parent_columns == parent_dataset.columns
              options ==
                  IF ~parent_dataset.is_none /\ parent_columns /= {}
                  THEN [choice |-> TRUE, options |-> parent_columns]
                  ELSE cf.column
          IN  cf' = [cf EXCEPT !.column = options,
                               !.returned = options,
                               !.calls = Append(@, parent_dataset)]
    /\ UNCHANGED <<search_vars, rw, wa, sw>>

SpecOptions == InitOptions /\ [][GetOptions]_vars

(***************************************************************************)
(* What the claims speak of.                                               *)
(***************************************************************************)
Made(op) == {k \in DOMAIN calls : calls[k].op = op}
Has(op) == Made(op) /= {}
Last(s) == s[Len(s)]

Ended == pc \in {"done", "raised"}
AfterExecute == pc \in {"returned", "copy", "close", "finish", "done"}
Strategies == {"random", "country", "string"}

\* fetch_sphinx was called and ended this way
SphinxEnded(how) ==
    \E k \in Made("fetch_sphinx") : calls[k].arg = <<how>>

ThreadMode == query.full_thread \/ query.dense_threads
DenseApplies == query.dense_threads /\ NonEmpty(query.body_query)

\* the string search found posts and went on in thread mode
InThreadMode ==
    /\ strategy = "string" /\ SphinxEnded("rows") /\ ids /= <<>>
    /\ ThreadMode

\* the density filter of the string search, applied to what Sphinx found
DenseOfMatches ==
    filter_dense(thread_ids_of(ids), query.dense_percentage, query.dense_length)

\* the threads that a full-thread query is to fetch: the threads of the
\* matches, narrowed by the density filter when it applies
Candidates == IF DenseApplies THEN DenseOfMatches.value ELSE thread_ids_of(ids)

\* the string search came to its guard
AtGuard ==
    /\ InThreadMode
    /\ DenseApplies => DenseOfMatches.raised = "none" /\ DenseOfMatches.value /= <<>>

(***************************************************************************)
(* C1: process calls exactly one of execute_random_query,                  *)
(* execute_country_query and execute_string_query, once: the random one    *)
(* when random_amount is truthy, else the country one when country_flag is *)
(* present, is not "all" and body_query is empty, else the string one.     *)
(***************************************************************************)
C1_OneStrategy ==
    LET random == "random_amount" \in query.keys /\ query.random_amount /= 0
        country == /\ "country_flag" \in query.keys
                   /\ query.country_flag /= "all"
                   /\ query.body_query = <<>>
        made(st) == Cardinality(Made(st))
    IN  /\ pc \in {"start", "select"} => \A st \in Strategies : made(st) = 0
        /\ pc \notin {"start", "select"} =>
              /\ made("random") = (IF random THEN 1 ELSE 0)
              /\ made("country") = (IF ~random /\ country THEN 1 ELSE 0)
              /\ made("string") = (IF ~random /\ ~country THEN 1 ELSE 0)

\* a query with a random amount and a country flag has run the random query
C1_Witness ==
    /\ pc = "done"
    /\ Has("random")
    /\ query.country_flag = "NL" /\ query.body_query = <<>>

(***************************************************************************)
(* C2: a string search in thread mode that would fetch more than 25,000    *)
(* threads calls neither fetch_threads nor fetch_posts, calls job.finish,  *)
(* writes no result file and ends with dataset.finish(num_rows = 0).       *)
(***************************************************************************)
C2_GuardAborts ==
    (AtGuard /\ NumThreads(Candidates) > MAX_FULL_THREADS) =>
        /\ ~Has("fetch_threads") /\ ~Has("fetch_posts")
        /\ Cardinality(Made("job.finish")) = 1
        /\ ~results_file
        /\ raised = "none"
        /\ pc = "done" => finished = <<0>>

\* a full-thread query over 25,001 threads has ended
C2_Witness ==
    /\ pc = "done"
    /\ AtGuard /\ NumThreads(Candidates) > MAX_FULL_THREADS
    /\ Has("job.finish")

(***************************************************************************)
(* C3: the guard aborts exactly when the number of threads to fetch        *)
(* exceeds 25,000: with at most 25,000 threads fetch_threads is called,    *)
(* however many posts matched, and with more the execution is aborted.     *)
(***************************************************************************)
C3_GuardCountsThreads ==
    AtGuard =>
        /\ Has("job.finish") <=> NumThreads(Candidates) > MAX_FULL_THREADS
        /\ Has("fetch_threads") <=> NumThreads(Candidates) <= MAX_FULL_THREADS

(***************************************************************************)
(* C4: when the execution of process has ended, in whatever way, the       *)
(* connection to the index that it opened is closed.                       *)
(***************************************************************************)
C4_ConnectionClosed == Ended => sphinx = "closed"

(***************************************************************************)
(* C5: when fetch_sphinx fails, by a timeout or by an engine error, no     *)
(* exception leaves process, no filter and no hydration is called, no      *)
(* result file is written, the status stays the message of that failure    *)
(* (a different one for each kind), and dataset.finish gets num_rows = 0.  *)
(***************************************************************************)
C5_IndexFailure ==
    LET failed(how, text) ==
            SphinxEnded(how) =>
                /\ raised = "none" /\ pc /= "raised"
                /\ \A op \in {"filter_on_country", "filter_dense", "fetch_posts",
                                "fetch_threads", "posts_to_csv", "job.finish"} : ~Has(op)
                /\ ~results_file
                /\ Last(status) = text
                /\ pc = "done" => finished = <<0>>
    IN  /\ failed("OperationalError", TIMED_OUT)
        /\ failed("ProgrammingError", ENGINE_ERROR)
        /\ TIMED_OUT /= ENGINE_ERROR

\* a string search whose index query timed out has ended
C5_Witness == pc = "done" /\ SphinxEnded("OperationalError")

(***************************************************************************)
(* C6: every execution of process ends with dataset.finish called exactly  *)
(* once, with the number of posts returned (0 when there is none).         *)
(***************************************************************************)
C6_AlwaysFinished ==
    /\ Len(finished) <= 1
    /\ Ended => pc = "done" /\ finished = <<num_posts>>

(***************************************************************************)
(* C7: when fetch_sphinx returns no match, no filter, no hydration and no  *)
(* job.finish is called, the status says that no results were found, and   *)
(* the execution ends with dataset.finish(num_rows = 0).                   *)
(***************************************************************************)
C7_EmptyMatchSet ==
    (SphinxEnded("rows") /\ ids = <<>>) =>
        /\ raised = "none" /\ pc /= "raised"
        /\ \A op \in {"filter_on_country", "filter_dense", "fetch_posts",
                        "fetch_threads", "posts_to_csv", "job.finish"} : ~Has(op)
        /\ Last(status) = NOT_FOUND
        /\ ~results_file
        /\ pc = "done" => finished = <<0>>

\* a string search without a match has ended
C7_Witness == pc = "done" /\ SphinxEnded("rows") /\ ids = <<>>

(***************************************************************************)
(* The density filters: what the claims speak of.                          *)
(***************************************************************************)
\* the thread ids of the input, and those that the filter returned
InputThreads == {d_in.thread_ids[k].thread_id : k \in DOMAIN d_in.thread_ids}
Qualified == {d_out.result.value[k].thread_id : k \in DOMAIN d_out.result.value}

Replies(t) == archive.threads[t].num_replies
NoEmptyThread == \A t \in InputThreads : Replies(t) > 0

\* occurrences * 100 / num_replies >= percentage, for num_replies > 0
RatioAtLeast(t, percentage) ==
    Counter(d_in.thread_ids, t) * 100 >= percentage * Replies(t)

(***************************************************************************)
(* C8: filter_dense returns exactly the distinct thread ids of its input   *)
(* with num_replies >= dense_length and occurrences * 100 / num_replies    *)
(* >= dense_percentage, both inclusive (here for inputs in which every     *)
(* thread has replies).                                                    *)
(***************************************************************************)
C8_FilterDenseExact ==
    (d_out.filter = "filter_dense" /\ NoEmptyThread) =>
        /\ d_out.result.raised = "none"
        /\ Qualified = { t \in InputThreads :
                           /\ Replies(t) >= d_in.length
                           /\ RatioAtLeast(t, d_in.percentage) }

(***************************************************************************)
(* C9: filter_dense_country returns exactly the distinct thread ids of its *)
(* input with occurrences * 100 / num_replies >= dense_country_percentage, *)
(* inclusive, whatever the length of the thread (here for inputs in which  *)
(* every thread has replies).                                              *)
(***************************************************************************)
C9_FilterDenseCountryExact ==
    (d_out.filter = "filter_dense_country" /\ NoEmptyThread) =>
        /\ d_out.result.raised = "none"
        /\ Qualified = {t \in InputThreads : RatioAtLeast(t, d_in.percentage)}

(***************************************************************************)
(* C10: for every input of filter_dense and of filter_dense_country, a     *)
(* thread with num_replies = 0 does not make the filter fail and is not    *)
(* among the threads returned.                                             *)
(***************************************************************************)
C10_EmptyThreadNeverQualifies ==
    d_out.filter /= "" =>
        /\ d_out.result.raised = "none"
        /\ \A t \in Qualified : Replies(t) /= 0

(***************************************************************************)
(* C11: both density filters are monotonic in the threshold: for the same  *)
(* thread ids, archive and minimum length, every thread returned with a    *)
(* percentage is returned with every lower percentage, too.                *)
(***************************************************************************)
\* the threads that the filter applied returns with another percentage
QualifiedAt(percentage) ==
    LET result == IF d_out.filter = "filter_dense"
                  THEN filter_dense(d_in.thread_ids, percentage, d_in.length)
                  ELSE filter_dense_country(d_in.thread_ids, percentage)
    IN  [ raised |-> result.raised,
          threads |-> {result.value[k].thread_id : k \in DOMAIN result.value} ]

C11_DensityMonotonic ==
    d_out.filter /= "" =>
        \A p1 \in Percentages :
            p1 <= d_in.percentage =>
                /\ QualifiedAt(p1).raised = d_out.result.raised
                /\ Qualified \subseteq QualifiedAt(p1).threads

\* a filter returned a thread, and returns one more with a lower percentage
C11_Witness ==
    /\ d_out.filter = "filter_dense_country"
    /\ d_out.result.raised = "none"
    /\ Qualified /= {}
    /\ \E p1 \in Percentages :
          /\ p1 < d_in.percentage
          /\ Qualified /= QualifiedAt(p1).threads

(***************************************************************************)
(* C12: when the density filter of a string search, or the country density *)
(* filter of a country search, returns no thread, neither fetch_threads    *)
(* nor job.finish is called, the last status is "Query finished, no        *)
(* results found." and dataset.finish gets num_rows = 0.                   *)
(***************************************************************************)
\* filter_dense_country as the country search called it
DenseOfCountry ==
    filter_dense_country(calls[CHOOSE k \in Made("filter_dense_country") : TRUE].arg,
                         query.dense_country_percentage)

\* the density filter of the strategy ran and returned an empty tuple
DenseFoundNothing ==
    \/ /\ InThreadMode /\ DenseApplies /\ Has("filter_dense")
       /\ DenseOfMatches = Returned(<<>>)
    \/ /\ strategy = "country" /\ Has("filter_dense_country")
       /\ DenseOfCountry = Returned(<<>>)

C12_NoDenseThread ==
    DenseFoundNothing =>
        /\ ~Has("fetch_threads") /\ ~Has("fetch_posts") /\ ~Has("job.finish")
        /\ raised = "none" /\ pc /= "raised"
        /\ posts = Rows(<<>>)
        /\ ~results_file
        /\ pc \in {"copy", "close", "finish", "done"} => Last(status) = FINISHED_EMPTY
        /\ pc = "done" => finished = <<0>>

\* a string search whose matches lie in threads that are not dense has ended
C12_Witness ==
    /\ pc = "done" /\ strategy = "string" /\ DenseFoundNothing
    /\ ids /= <<>>

\* a country search whose posts lie in threads that are not dense has ended
C12_WitnessCountry ==
    /\ pc = "done" /\ strategy = "country" /\ DenseFoundNothing

(***************************************************************************)
(* C13: whatever the strategy, the posts that process hands to             *)
(* posts_to_csv are non-decreasing in (thread_id, id), fetch_posts and     *)
(* fetch_threads returning their rows in that order.                       *)
(***************************************************************************)
\* rows is non-decreasing in (thread_id, id)
Ordered(rows) ==
    \A j, k \in DOMAIN rows :
        j < k => \/ rows[j].thread_id < rows[k].thread_id
                 \/ /\ rows[j].thread_id = rows[k].thread_id
                    /\ rows[j].id <= rows[k].id

C13_ExportOrdered == Has("posts_to_csv") => Ordered(posts.rows)

\* the same for the posts that come from fetch_posts or fetch_threads
C13_HydratedOrdered ==
    (Has("posts_to_csv") /\ (Has("fetch_posts") \/ Has("fetch_threads"))) =>
        Ordered(posts.rows)

(***************************************************************************)
(* C14: a random query for N posts, with at least N posts on the board of  *)
(* the query (on any board, for the wildcard) and within its dates, calls  *)
(* fetch_posts with exactly N distinct post ids, each of such a post.      *)
(***************************************************************************)
\* the posts on the board of the query and within its dates
RandomPool ==
    { i \in POST_IDS :
        /\ query.board /= "*" =>
              archive.threads[archive.posts[i].thread_id].board = query.board
        /\ archive.posts[i].timestamp >= query.min_date
        /\ query.max_date > 0 => archive.posts[i].timestamp <= query.max_date }

PoolSize ==
    LET order == SetToSeq(RandomPool)
    IN  SumSeq([k \in DOMAIN order |-> Mult(archive.posts[order[k]])])

\* fetch_posts was called once, with n distinct ids of posts of the pool
HydratedFromPool(n) ==
    /\ Cardinality(Made("fetch_posts")) = 1
    /\ \A c \in Made("fetch_posts") :
          LET post_ids == calls[c].arg IN
          /\ LenRows(post_ids) = n
          /\ \A j, k \in DOMAIN post_ids :
                j /= k => post_ids[j].post_id /= post_ids[k].post_id
          /\ \A k \in DOMAIN post_ids :
                /\ post_ids[k].post_id \in RandomPool
                /\ post_ids[k].count <= Mult(archive.posts[post_ids[k].post_id])

C14_RandomDraw ==
    (strategy = "random" /\ pc /= "random" /\ PoolSize >= query.random_amount) =>
        HydratedFromPool(query.random_amount)

\* the same for the queries that name a board
C14_NamedBoard ==
    (strategy = "random" /\ pc /= "random" /\ PoolSize >= query.random_amount
        /\ query.board /= "*") =>
        HydratedFromPool(query.random_amount)

\* a random query drew two of the posts of a board within its dates
C14_NamedBoardWitness ==
    /\ strategy = "random" /\ pc = "done" /\ query.board = "v"
    /\ query.min_date = 100 /\ PoolSize > query.random_amount

(***************************************************************************)
(* C15: the text of body_query and of subject_query stands in the match    *)
(* expression given to Sphinx with every "/" replaced by "\/" and every    *)
(* other character as it is, in the same order.                            *)
(***************************************************************************)
Slashes(string) == Cardinality({k \in DOMAIN string : string[k] = "/"})

\* where the k-th character of string stands in its escaped form
Offset(string, k) == k + Cardinality({j \in 1..(k - 1) : string[j] = "/"})

IsEscaped(escaped, string) ==
    /\ Len(escaped) = Len(string) + Slashes(string)
    /\ \A k \in DOMAIN string :
          IF string[k] = "/"
          THEN /\ escaped[Offset(string, k)] = "\\"
               /\ escaped[Offset(string, k) + 1] = "/"
          ELSE escaped[Offset(string, k)] = string[k]

\* the length of a part of the match expression: the field and the text
PartLen(field, string) ==
    IF string = <<>> THEN 0 ELSE Len(field) + Len(string) + Slashes(string)

C15_SlashEscaped ==
    pc = "matched" =>
        LET body == query.body_query
            subject == query.subject_query
            body_len == PartLen(AT_BODY, body)
            start == IF body /= <<>> /\ subject /= <<>> THEN body_len + 1 ELSE body_len
            where == sphinx_query.where
        IN  IF body = <<>> /\ subject = <<>>
            THEN \A k \in DOMAIN where : where[k] /= "MATCH(%s)"
            ELSE /\ Last(where) = "MATCH(%s)"
                 /\ Len(sphinx_query.replacements) = Len(where)
                 /\ LET match == Last(sphinx_query.replacements) IN
                    /\ Len(match) = start + PartLen(AT_SUBJECT, subject)
                    /\ body /= <<>> =>
                          /\ SubSeq(match, 1, Len(AT_BODY)) = AT_BODY
                          /\ IsEscaped(SubSeq(match, Len(AT_BODY) + 1, body_len), body)
                    /\ subject /= <<>> =>
                          /\ SubSeq(match, start + 1, start + Len(AT_SUBJECT)) = AT_SUBJECT
                          /\ IsEscaped(SubSeq(match, start + Len(AT_SUBJECT) + 1,
                                              Len(match)), subject)

\* a match was built of a body with two slashes and a backslash and of a
\* subject with a slash
C15_Witness ==
    /\ pc = "matched"
    /\ Slashes(query.body_query) = 2
    /\ \E k \in DOMAIN query.body_query : query.body_query[k] = "\\"
    /\ Slashes(query.subject_query) >= 1
    /\ Len(Last(sphinx_query.replacements)) > Len(query.body_query) + Len(query.subject_query)

(***************************************************************************)
(* C16: a string search in exact mode (neither full_thread nor             *)
(* dense_threads) that found posts calls fetch_posts with exactly the ids  *)
(* found, or, with a country_flag other than "all", with those of them     *)
(* whose post has a matching country code; it never calls fetch_threads;   *)
(* and when the country filter leaves no id, it fetches nothing and ends   *)
(* with zero results.                                                      *)
(***************************************************************************)
ExactMode ==
    /\ strategy = "string" /\ SphinxEnded("rows") /\ ids /= <<>>
    /\ ~ThreadMode

CountryApplies == "country_flag" \in query.keys /\ query.country_flag /= "all"

\* the ids found, narrowed to the country of the query when one is asked for
ExactIds ==
    LET found == post_ids_of(ids)
        in_country(p) ==
            LET code == archive.posts[p.post_id].country_code
            IN  IF query.country_flag = "europe" THEN code \in EUROPE
                ELSE code = query.country_flag
    IN  IF CountryApplies THEN SelectSeq(found, in_country) ELSE found

C16_ExactHydration ==
    ExactMode =>
        /\ ~Has("fetch_threads") /\ ~Has("job.finish")
        /\ raised = "none" /\ pc /= "raised"
        /\ IF ExactIds = <<>>
           THEN /\ ~Has("fetch_posts")
                /\ ~results_file
                /\ Last(status) = NOT_FOUND
                /\ pc = "done" => finished = <<0>>
           ELSE /\ Cardinality(Made("fetch_posts")) = 1
                /\ \A c \in Made("fetch_posts") : calls[c].arg = ExactIds
                /\ posts = Rows(fetch_posts(ExactIds))

\* an exact search with a country flag has fetched some of the posts found,
\* not all
C16_Witness ==
    /\ pc = "done" /\ ExactMode /\ CountryApplies
    /\ ExactIds /= <<>> /\ Len(ExactIds) < Len(ids)
    /\ Has("fetch_posts")

\* an exact search with a country flag has found posts, none of the country
C16_WitnessNone ==
    /\ pc = "done" /\ ExactMode /\ CountryApplies /\ ExactIds = <<>>

(***************************************************************************)
(* C17: filter_on_country and execute_country_query compare country_code   *)
(* by IN with the enumerated European codes for the flag "europe" and by   *)
(* = with the flag itself for any other flag; the two use the same codes,  *)
(* whatever the dates of the query.                                        *)
(***************************************************************************)
\* the country predicates of the store queries made
CountryPredicates == {calls[k].arg : k \in Made("WHERE country_code")}

C17_EuropeExpansion ==
    /\ EUROPE = EUROPE_QUERY
    /\ Cardinality(EUROPE) = 54
    /\ (Has("filter_on_country") \/ (strategy = "country" /\ pc /= "country")) =>
          /\ Has("WHERE country_code")
          /\ \A predicate \in CountryPredicates :
                IF query.country_flag = "europe"
                THEN predicate = [operator |-> "IN", value |-> EUROPE]
                ELSE predicate = [operator |-> "=", value |-> {query.country_flag}]
    /\ (strategy = "country" /\ pc = "done" /\ raised = "none"
          /\ query.dense_country_percentage = 0) =>
          \A k \in DOMAIN posts.rows :
              IF query.country_flag = "europe"
              THEN posts.rows[k].country_code \in EUROPE
              ELSE posts.rows[k].country_code = query.country_flag

\* a country query for europe from date 100 on, without upper date, has
\* found posts
C17_Witness ==
    /\ strategy = "country" /\ pc = "done"
    /\ query.country_flag = "europe"
    /\ query.min_date = 100 /\ query.max_date = 0
    /\ [operator |-> "IN", value |-> EUROPE_QUERY] \in CountryPredicates
    /\ has_posts(posts)

\* a string search has filtered the posts found on europe
C17_WitnessFilter ==
    /\ strategy = "string" /\ pc = "done"
    /\ query.country_flag = "europe"
    /\ [operator |-> "IN", value |-> EUROPE] \in CountryPredicates
    /\ Has("fetch_posts")

(***************************************************************************)
(* C18: in a string search the stages follow one another: fetch_posts or   *)
(* fetch_threads is called only after fetch_sphinx has returned a          *)
(* non-empty list and, when a filter applies, after the filter, which got  *)
(* what fetch_sphinx found; and it is called with exactly the ids that the *)
(* last stage before it produced.                                          *)
(***************************************************************************)
Hydrations == Made("fetch_posts") \cup Made("fetch_threads")

\* the filter that applies to the string search, "" if none does
StringFilter ==
    IF ThreadMode
    THEN IF DenseApplies THEN "filter_dense" ELSE ""
    ELSE IF CountryApplies THEN "filter_on_country" ELSE ""

\* what fetch_sphinx found, as the ids of the mode
FoundIds == IF ThreadMode THEN thread_ids_of(ids) ELSE post_ids_of(ids)

\* what the filter called at position f of the log returned
FilterOutput(f) ==
    IF calls[f].op = "filter_dense"
    THEN filter_dense(calls[f].arg, query.dense_percentage, query.dense_length).value
    ELSE filter_on_country(query, calls[f].arg)

C18_StagesSequential ==
    strategy = "string" =>
        /\ Cardinality(Hydrations) <= 1
        /\ \A h \in Hydrations :
              /\ calls[h].op = (IF ThreadMode THEN "fetch_threads" ELSE "fetch_posts")
              /\ ids /= <<>>
              /\ \E s \in Made("fetch_sphinx") : s < h /\ calls[s].arg = <<"rows">>
              /\ IF StringFilter = ""
                 THEN /\ ~Has("filter_dense") /\ ~Has("filter_on_country")
                      /\ calls[h].arg = FoundIds
                 ELSE /\ Cardinality(Made("filter_dense") \cup Made("filter_on_country")) = 1
                      /\ \E f \in Made(StringFilter) :
                            /\ f < h
                            /\ \E s \in Made("fetch_sphinx") : s < f
                            /\ calls[f].arg = FoundIds
                            /\ calls[h].arg = FilterOutput(f)
                            /\ calls[h].arg /= <<>>
        /\ \A f \in Made("filter_dense") \cup Made("filter_on_country") :
              \E s \in Made("fetch_sphinx") : s < f /\ calls[s].arg = <<"rows">>

\* a search for dense threads has fetched fewer threads than it found
C18_Witness ==
    /\ pc = "done" /\ strategy = "string" /\ StringFilter = "filter_dense"
    /\ \E h \in Made("fetch_threads") :
          {calls[h].arg[k].thread_id : k \in DOMAIN calls[h].arg}
             /= {FoundIds[k].thread_id : k \in DOMAIN FoundIds}

(***************************************************************************)
(* C19: fetch_sphinx is called only by the string search, never by the     *)
(* random or the country search, and at most once in an execution: after a *)
(* timeout or an engine error it is not called again; and no hydration     *)
(* call is made twice.                                                     *)
(***************************************************************************)
C19_SphinxOnce ==
    /\ Cardinality(Made("fetch_sphinx")) <= 1
    /\ Has("fetch_sphinx") => strategy = "string"
    /\ strategy \in {"random", "country"} => ~Has("fetch_sphinx")
    /\ (strategy = "string" /\ pc /= "string") =>
          Cardinality(Made("fetch_sphinx")) = 1
    /\ (SphinxEnded("OperationalError") \/ SphinxEnded("ProgrammingError")) =>
          /\ pc /= "string"
          /\ Hydrations = {}
    /\ Cardinality(Made("fetch_posts")) <= 1
    /\ Cardinality(Made("fetch_threads")) <= 1

\* a string search whose index query failed with an engine error has ended,
\* with one call of fetch_sphinx
C19_Witness ==
    /\ pc = "done" /\ SphinxEnded("ProgrammingError")
    /\ Cardinality(Made("fetch_sphinx")) = 1

\* a country search has ended with posts and without a call of fetch_sphinx
C19_WitnessCountry ==
    /\ pc = "done" /\ strategy = "country" /\ has_posts(posts)
    /\ ~Has("fetch_sphinx")

(***************************************************************************)
(* C20: an execution that ends with posts has set the statuses of the      *)
(* transitions in this order: searching, collecting (matches found),       *)
(* filtering (only when a country or density filter applies), post data    *)
(* collected, writing, finished; and in every execution the last status    *)
(* set before dataset.finish is a final one: finished, no results, or the  *)
(* message of a failure.                                                   *)
(***************************************************************************)
\* the transition that a status text reports
Stage(text) ==
    CASE text \in {SEARCHING, FETCHING_RANDOM, QUERYING_COUNTRY} -> "searching"
      [] text = FOUND -> "collecting"
      [] text \in {FILTERING_COUNTRY, FILTERING_DENSE} -> "filtering"
      [] text \in {COLLECTED, COLLECTED_COUNTRY} -> "collected"
      [] text = WRITING -> "writing"
      [] text = FINISHED_RESULTS -> "finished"
      [] text \in {FINISHED_EMPTY, NOT_FOUND} -> "no results"
      [] text \in {TIMED_OUT, ENGINE_ERROR, TOO_MANY} -> "failure"

Stages == [k \in DOMAIN status |-> Stage(status[k])]

\* does a country or density filter apply to the query
FilterApplies ==
    CASE strategy = "string" -> StringFilter /= ""
      [] strategy = "country" -> query.dense_country_percentage /= 0
      [] OTHER -> FALSE

StagesWithPosts ==
    <<"searching", "collecting">>
      \o (IF FilterApplies THEN <<"filtering">> ELSE <<>>)
      \o <<"collected", "writing", "finished">>

\* the last status is a final one, before and after dataset.finish
LastStatusFinal ==
    pc \in {"finish", "done"} =>
        /\ status /= <<>>
        /\ Stage(Last(status)) \in {"finished", "no results", "failure"}
        /\ has_posts(posts) <=> Stage(Last(status)) = "finished"

C20_StatusOrder ==
    /\ (pc = "done" /\ has_posts(posts)) => Stages = StagesWithPosts
    /\ LastStatusFinal

\* the same for the string search
C20_StringStatusOrder ==
    /\ (pc = "done" /\ has_posts(posts) /\ strategy = "string") =>
          Stages = StagesWithPosts
    /\ LastStatusFinal

\* a string search with a filter has ended with posts
C20_StringWitness ==
    /\ pc = "done" /\ has_posts(posts) /\ strategy = "string" /\ FilterApplies

\* the random and the country search with posts: no status for collecting
C20_ScanStatusOrder ==
    (pc = "done" /\ has_posts(posts) /\ strategy /= "string") =>
        Stages = <<"searching">>
                   \o (IF FilterApplies THEN <<"filtering">> ELSE <<>>)
                   \o <<"collected", "writing", "finished">>

(***************************************************************************)
(* C21: when copy_to is set, at the end of the execution, whatever its     *)
(* outcome, there is a file at copy_to: a copy of the result file when     *)
(* that exists, an empty file otherwise; when copy_to is not set no file   *)
(* is written there.                                                       *)
(***************************************************************************)
CopyRequested == "copy_to" \in query.keys /\ query.copy_to /= ""

C21_CopyAlways ==
    /\ (Ended /\ CopyRequested) =>
          copy_file = (IF results_file THEN "copy" ELSE "empty")
    /\ ~CopyRequested => copy_file = "absent"

\* the same for the executions that no exception leaves
C21_CopyWhenReturned ==
    /\ (pc \in {"close", "finish", "done"} /\ CopyRequested) =>
          copy_file = (IF results_file THEN "copy" ELSE "empty")
    /\ (pc \in {"close", "finish", "done"} /\ CopyRequested) =>
          results_file = has_posts(posts)
    /\ ~CopyRequested => copy_file = "absent"

\* a search with copy_to whose index query timed out has left an empty file
C21_ReturnedWitness ==
    /\ pc = "done" /\ CopyRequested /\ SphinxEnded("OperationalError")
    /\ copy_file = "empty"

(***************************************************************************)
(* C22: queue.add_job is called for a follow-on of the query if and only   *)
(* if the execution produced a post and the type of the follow-on is among *)
(* the available processors: once for each such follow-on, never for a     *)
(* type that is not available, never after an execution without posts or   *)
(* a failed one; and dataset.finish gets the number of posts written.      *)
(***************************************************************************)
\* the types of the jobs queued, in order
JobsQueued ==
    LET made == SetToSeq(Made("queue.add_job"))
    IN  [k \in DOMAIN made |-> calls[made[k]].arg[1]]

\* how many follow-ons of the query have this type
Requests(type) == Cardinality({k \in DOMAIN query.next : query.next[k].type = type})

C22_FollowOnJobs ==
    /\ pc \in {"start", "select", "string", "random", "country", "returned", "raised"} =>
          JobsQueued = <<>>
    /\ pc \in {"copy", "close", "finish", "done"} =>
          \A type \in {query.next[k].type : k \in DOMAIN query.next} \cup Range(JobsQueued) :
              Cardinality({k \in DOMAIN JobsQueued : JobsQueued[k] = type})
                = (IF has_posts(posts) /\ type \in available_processors
                   THEN Requests(type) ELSE 0)
    /\ ~results_file => JobsQueued = <<>>
    /\ pc = "done" =>
          finished = <<IF results_file THEN LenRows(posts.rows) ELSE 0>>

\* an execution with posts has queued the two available follow-ons of three
C22_Witness ==
    /\ pc = "done" /\ has_posts(posts)
    /\ Len(query.next) = 3 /\ Len(JobsQueued) = 2

\* an execution without posts has queued none of its follow-ons
C22_WitnessNone ==
    /\ pc = "done" /\ ~has_posts(posts) /\ ~posts.is_none
    /\ Len(query.next) = 3 /\ JobsQueued = <<>>

(***************************************************************************)
(* C23: the predicate that execute_string_query builds has exactly one     *)
(* MATCH clause when body_query or subject_query is not empty and none     *)
(* when both are; with both, the one match expression is the escaped body  *)
(* part followed by the escaped subject part; and the replacements are one *)
(* value for each placeholder of the predicate, in the same order.         *)
(***************************************************************************)
MatchClauses == {k \in DOMAIN sphinx_query.where : sphinx_query.where[k] = "MATCH(%s)"}

\* the value bound to the placeholder of each clause but MATCH
BoundToClause(k) ==
    LET clause == sphinx_query.where[k]
        value == sphinx_query.replacements[k]
    IN  CASE clause = "timestamp >= %s" -> value = query.min_date
          [] clause = "timestamp <= %s" -> value = query.max_date
          [] clause = "board = %s" -> value = query.board
          [] OTHER -> FALSE

C23_OneMatchClause ==
    pc = "matched" =>
        LET body == query.body_query
            subject == query.subject_query
            body_part == AT_BODY \o escape_for_sphinx(body)
            subject_part == AT_SUBJECT \o escape_for_sphinx(subject)
        IN  /\ Cardinality(MatchClauses)
                 = (IF body /= <<>> \/ subject /= <<>> THEN 1 ELSE 0)
            /\ Len(sphinx_query.replacements) = Len(sphinx_query.where)
            /\ \A k \in DOMAIN sphinx_query.where :
                  IF k \in MatchClauses
                  THEN sphinx_query.replacements[k]
                         = (IF body = <<>> THEN subject_part
                            ELSE IF subject = <<>> THEN body_part
                            ELSE body_part \o <<" ">> \o subject_part)
                  ELSE BoundToClause(k)

\* a predicate with both dates, a board and a match of body and subject
C23_Witness ==
    /\ pc = "matched"
    /\ Slashes(query.body_query) > 0 /\ query.subject_query /= <<>>
    /\ Len(sphinx_query.where) = 4
    /\ Cardinality(MatchClauses) = 1

(***************************************************************************)
(* C24: in the string search the predicate has the clause "timestamp >=    *)
(* min_date" if and only if min_date is not 0 and "timestamp <= max_date"  *)
(* if and only if max_date is not 0, both bounds inclusive; with both 0    *)
(* there is no restriction in time, and an exact search on board v that    *)
(* finds one post returns exactly that post, with the thread id of the     *)
(* match.                                                                  *)
(***************************************************************************)
\* is there a clause of this text, and is every such clause bound to value
HasClause(clause) == \E k \in DOMAIN sphinx_query.where : sphinx_query.where[k] = clause
ClauseBoundTo(clause, value) ==
    \A k \in DOMAIN sphinx_query.where :
        sphinx_query.where[k] = clause => sphinx_query.replacements[k] = value

StringQueried == strategy = "string" /\ pc \notin {"start", "select", "string"}

C24_TimeWindow ==
    StringQueried =>
        /\ HasClause("timestamp >= %s") <=> query.min_date /= 0
        /\ HasClause("timestamp <= %s") <=> query.max_date /= 0
        /\ ClauseBoundTo("timestamp >= %s", query.min_date)
        /\ ClauseBoundTo("timestamp <= %s", query.max_date)
        /\ \A k \in DOMAIN ids :
              LET timestamp == archive.posts[ids[k].post_id].timestamp
              IN  /\ query.min_date /= 0 => timestamp >= query.min_date
                  /\ query.max_date /= 0 => timestamp <= query.max_date
        /\ ( /\ pc = "done" /\ query.min_date = 0 /\ query.max_date = 0
             /\ query.board = "v" /\ query.body_query /= <<>>
             /\ ~ThreadMode /\ ~CountryApplies
             /\ LenRows(ids) = 1 ) =>
                /\ Len(posts.rows) = 1
                /\ posts.rows[1].id = ids[1].post_id
                /\ posts.rows[1].thread_id = ids[1].thread_id
                /\ posts.rows[1].count = 1
                /\ finished = <<1>>

\* a search from 100 to 100 has returned the post of time 100
C24_Witness ==
    /\ pc = "done" /\ strategy = "string"
    /\ query.min_date = 100 /\ query.max_date = 100
    /\ has_posts(posts)
    /\ \A k \in DOMAIN posts.rows : posts.rows[k].timestamp = 100

\* an exact search without dates on board v has found one post
C24_WitnessScenario ==
    /\ pc = "done" /\ strategy = "string"
    /\ query.min_date = 0 /\ query.max_date = 0 /\ query.board = "v"
    /\ query.body_query /= <<>> /\ ~ThreadMode /\ ~CountryApplies
    /\ LenRows(ids) = 1 /\ finished = <<1>>

(***************************************************************************)
(* C25: in ColumnFilter, malformed comparison input (a less-than or        *)
(* greater-than match value that is not numeric, a before or after match   *)
(* value that is neither a timestamp nor an integer, an item whose date    *)
(* column cannot be parsed) aborts the execution with zero results: the    *)
(* last status is the final failure status, no item is in the result, and  *)
(* dataset.finish is called exactly once, with 0; well-formed numeric and  *)
(* date input is not aborted: no exception, no failure status, one         *)
(* dataset.finish.                                                         *)
(***************************************************************************)
FAILURES == {FILTER_STATUS.non_numeric, FILTER_STATUS.not_dates, FILTER_STATUS.invalid_date}

Comparison == cf.parameters.match_style \in
                 {"less-than", "greater-than", "before", "after"}

\* the source dataset can be filtered at all
Filterable == cf.extension \in {"csv", "ndjson"}

\* the match values as filter_items reads them
StrippedValues ==
    LET parts == split(cf.parameters.match_value, ",")
    IN  [k \in DOMAIN parts |-> strip(parts[k])]

MalformedValues ==
    LET all(test(_)) == \A k \in DOMAIN StrippedValues : test(StrippedValues[k])
    IN  \/ /\ cf.parameters.match_style \in {"less-than", "greater-than"}
           /\ ~all(is_number)
        \/ /\ cf.parameters.match_style \in {"before", "after"}
           /\ ~all(is_number)
           /\ ~all(is_timestamp)

MalformedItems ==
    /\ cf.parameters.match_style \in {"before", "after"}
    /\ \E k \in DOMAIN cf.items :
           ~is_number(cf.items[k]) /\ ~is_timestamp(cf.items[k])

Failed == \E k \in DOMAIN cf.status : cf.status[k].text \in FAILURES

C25_MalformedAborted ==
    (cf.pc = "done" /\ Filterable /\ Comparison) =>
        /\ MalformedValues =>
              /\ Last(cf.status).text \in FAILURES
              /\ Last(cf.status).is_final
              /\ cf.written = <<>>
              /\ cf.finished = <<0>>
        /\ (~MalformedValues /\ ~MalformedItems) =>
              /\ cf.raised = "none"
              /\ ~Failed
              /\ Len(cf.finished) = 1

\* what the executions do on malformed match values: the failure status is
\* set and dataset.finish(0) called, then process goes on to lines 126-129;
\* a timestamp followed by more text leaves process as a ValueError
C25_FailureThenNoItems ==
    (cf.pc = "done" /\ Filterable /\ MalformedValues) =>
      IF criteria(cf.parameters).abort = ""
      THEN cf.raised = "ValueError" /\ cf.finished = <<>> /\ ~Failed
      ELSE
        /\ Len(cf.status) = 3
        /\ cf.status[2].text \in FAILURES /\ cf.status[2].is_final
        /\ cf.status[3] = [text |-> FILTER_STATUS.no_items, is_final |-> TRUE]
        /\ cf.written = <<>>
        /\ cf.finished = <<0, 0>>
        /\ cf.raised = "none"

\* and on well-formed ones: line 169 raises
C25_WellFormedRaises ==
    (cf.pc = "done" /\ Filterable /\ Comparison /\ ~MalformedValues) =>
        /\ cf.raised = "TypeError"
        /\ cf.finished = <<>>
        /\ cf.written = <<>>
        /\ cf.results_file

C25_WitnessMalformed ==
    /\ cf.pc = "done" /\ Filterable /\ MalformedValues
    /\ cf.parameters.match_style = "before"
    /\ cf.items /= <<>>

C25_WitnessWellFormed ==
    /\ cf.pc = "done" /\ Filterable /\ Comparison /\ ~MalformedValues
    /\ cf.parameters.match_value = <<"5", ",", "7">>
    /\ cf.items = <<<<"5">>, <<"7">>>>
    /\ cf.map_item

(***************************************************************************)
(* C30: ColumnFilter writes exactly the source items whose column          *)
(* satisfies the match style against the match values, at least one value  *)
(* when match-multiple is "any" and every value otherwise, before and      *)
(* after being inclusive and less-than and greater-than strict; the items  *)
(* written are the source items in source order; and dataset.finish gets   *)
(* the number of items written.                                            *)
(***************************************************************************)
\* does the column text satisfy the match style against the text of a value
Compares(match_style, value, column) ==
    LET date(text) == IF is_timestamp(text) THEN strptime(text) ELSE number(text)
    IN  CASE match_style = "exact" -> column = value
          [] match_style = "exact-not" -> column /= value
          [] match_style = "contains" -> contains(value, column)
          [] match_style = "contains-not" -> ~contains(value, column)
          [] match_style = "less-than" ->
                is_number(column) /\ number(column) < number(value)
          [] match_style = "greater-than" ->
                is_number(column) /\ number(column) > number(value)
          [] match_style = "before" -> date(column) <= date(value)
          [] match_style = "after" -> date(column) >= date(value)

\* the source items that satisfy the criteria, in source order
Satisfying ==
    LET holds(k, v) == Compares(cf.parameters.match_style, StrippedValues[v],
                                cf.items[k])
        retained(k) ==
            IF cf.parameters.match_multiple = "any"
            THEN \E v \in DOMAIN StrippedValues : holds(k, v)
            ELSE \A v \in DOMAIN StrippedValues : holds(k, v)
    IN  SelectSeq([k \in DOMAIN cf.items |-> k], retained)

C30_YieldsMatching ==
    (cf.pc = "done" /\ Filterable /\ ~MalformedValues /\ ~MalformedItems) =>
        /\ cf.written = Satisfying
        /\ cf.finished = <<Len(Satisfying)>>

\* the same for the match styles on texts, the processor of the source
\* dataset having a map_item
C30_TextStyles ==
    (cf.pc = "done" /\ Filterable /\ ~Comparison /\ cf.map_item) =>
        /\ cf.written = Satisfying
        /\ cf.finished = <<Len(Satisfying)>>
        /\ cf.raised = "none"

\* a source whose processor has no map_item is only filtered when empty
C30_NoMapItem ==
    (cf.pc = "done" /\ Filterable /\ ~Comparison /\ ~cf.map_item /\ cf.items /= <<>>) =>
        /\ cf.raised = "UnboundLocalError"
        /\ cf.written = <<>>
        /\ cf.finished = <<>>

C30_WitnessTextStyles ==
    /\ cf.pc = "done" /\ Filterable /\ cf.map_item
    /\ cf.parameters.match_style = "contains"
    /\ cf.parameters.match_multiple = "all"
    /\ cf.parameters.match_value = <<"5", ",", "7">>
    /\ cf.items = <<<<"5", "7">>, <<"5">>>>
    /\ cf.written = <<1>>

(***************************************************************************)
(* C26: when the query names a board, every post that the string search,   *)
(* the random sample and the country search return belongs to that board;  *)
(* with the wildcard "*" the posts of all boards are eligible, and a       *)
(* random sample still returns random_amount posts when that many are      *)
(* within the dates.                                                       *)
(***************************************************************************)
OnBoard(rows) ==
    \A k \in DOMAIN rows :
        archive.threads[rows[k].thread_id].board = query.board

C26_BoardRestricts ==
    (AfterExecute /\ ~posts.is_none) =>
        /\ query.board /= "*" => OnBoard(posts.rows)
        /\ (query.board = "*" /\ strategy = "random"
              /\ PoolSize >= query.random_amount) =>
              LenRows(posts.rows) = query.random_amount

\* the same for the string search and for the random sample of a named board
C26_StringAndNamedRandom ==
    (AfterExecute /\ ~posts.is_none /\ strategy \in {"string", "random"}) =>
        /\ query.board /= "*" => OnBoard(posts.rows)

\* a string search over all boards returned posts of two boards
C26_WildcardWitness ==
    /\ pc = "done" /\ strategy = "string" /\ query.board = "*" /\ ~posts.is_none
    /\ \E j, k \in DOMAIN posts.rows :
          archive.threads[posts.rows[j].thread_id].board
            /= archive.threads[posts.rows[k].thread_id].board

\* the country search returned a post of another board than the one named
C26_CountryOffBoard ==
    /\ pc = "done" /\ strategy = "country" /\ ~posts.is_none
    /\ query.board /= "*" /\ ~OnBoard(posts.rows)

\* the random sample over all boards draws nothing
C26_RandomWildcardEmpty ==
    (strategy = "random" /\ query.board = "*" /\ AfterExecute /\ ~posts.is_none) =>
        posts.rows = <<>>

(***************************************************************************)
(* C27: a string search that found posts goes on in thread mode if and     *)
(* only if full_thread or dense_threads is set; in thread mode the keyword *)
(* density filter is applied if and only if dense_threads and body_query   *)
(* are both set, so that with dense_threads and an empty body_query the    *)
(* threads of all matches are fetched; in thread mode the posts are never  *)
(* filtered on the country_flag; and the guard on the number of threads    *)
(* is evaluated only after the density filter has been called.             *)
(***************************************************************************)
\* the string search found posts and has gone through lines 195-236
StringFound ==
    /\ strategy = "string" /\ SphinxEnded("rows") /\ ids /= <<>>
    /\ pc /= "string"

\* the calls of the exact mode and those of thread mode
ExactCalls == Made("filter_on_country") \cup Made("fetch_posts")
ThreadCalls == Made("filter_dense") \cup Made("fetch_threads") \cup Made("job.finish")

C27_ThreadMode ==
    StringFound =>
        /\ ThreadMode <=> ThreadCalls /= {}
        /\ ~ThreadMode <=> ExactCalls /= {}
        /\ Has("filter_dense") <=> (ThreadMode /\ DenseApplies)
        /\ (ThreadMode /\ ~DenseApplies /\ ~too_many(ids)) =>
              \E c \in Made("fetch_threads") : calls[c].arg = thread_ids_of(ids)
        /\ \A f \in Made("filter_dense") :
              \A g \in Made("fetch_threads") \cup Made("job.finish") : f < g
        /\ (DenseApplies /\ Has("job.finish")) => Has("filter_dense")

\* a search on the subject alone with dense_threads has fetched the threads
\* of all its matches
C27_Witness ==
    /\ StringFound /\ pc = "done"
    /\ query.dense_threads /\ query.body_query = <<>> /\ query.subject_query /= <<>>
    /\ ~Has("filter_dense")
    /\ \E c \in Made("fetch_threads") : calls[c].arg = thread_ids_of(ids)

\* the guard has aborted a search whose matches went through the density
\* filter
C27_WitnessGuard ==
    /\ StringFound /\ DenseApplies
    /\ \E f \in Made("filter_dense") : \E g \in Made("job.finish") : f < g

\* a full-thread search with a country_flag has fetched the threads
C27_WitnessCountry ==
    /\ StringFound /\ ThreadMode /\ CountryApplies /\ Has("fetch_threads")

(***************************************************************************)
(* C28: the restart worker treats its job as a resume if and only if the   *)
(* job has attempts > 0; on a resume it never launches the restart or      *)
(* upgrade command, writes the success outcome to the restart log and      *)
(* calls job.finish() exactly once; and in an execution with attempts = 0  *)
(* the success outcome is never written.                                   *)
(***************************************************************************)
Written(line) == \E k \in DOMAIN rw.log : rw.log[k] = line

C28_Resume ==
    /\ rw.attempts > 0 =>
          /\ rw.launched = <<>> /\ rw.process = "none"
          /\ rw.pc \in {"work", "done"}
          /\ rw.pc = "done" =>
                /\ Cardinality({k \in DOMAIN rw.log :
                                   rw.log[k] = RESTART_LOG.success}) = 1
                /\ Last(rw.log) = RESTART_LOG.success
                /\ rw.finished = 1
                /\ rw.raised = "none"
          /\ rw.pc = "work" => rw.finished = 0 /\ rw.log = <<>>
    /\ rw.attempts = 0 =>
          /\ ~Written(RESTART_LOG.success)
          /\ rw.pc /= "work" => Len(rw.launched) = 1

\* a worker on its second attempt has reported the success
C28_Witness ==
    /\ rw.pc = "done" /\ rw.attempts = 1
    /\ Written(RESTART_LOG.success) /\ rw.finished = 1 /\ rw.launched = <<>>

(***************************************************************************)
(* C29: on the first attempt of the restart worker the wait loop ends only *)
(* when the launched process was seen to exit or the worker was            *)
(* interrupted; interrupted without having seen the process exit, work     *)
(* raises WorkerInterruptedException and does not call job.finish(); when  *)
(* the process was seen to exit, the failure is written to the restart log *)
(* and job.finish() is called once; either way the stream of the restart   *)
(* log is closed when work ends.                                           *)
(***************************************************************************)
SeenToExit == rw.returncode /= "None"

C29_FirstAttempt ==
    rw.attempts = 0 =>
        /\ rw.pc \in {"after", "done"} => (SeenToExit \/ rw.interrupted)
        /\ SeenToExit => rw.process = "exited"
        /\ rw.pc \in {"wait", "after"} =>
              /\ rw.finished = 0 /\ rw.raised = "none"
              /\ rw.log_stream_restart = "open"
        /\ (rw.pc = "done" /\ ~SeenToExit) =>
              /\ rw.raised = "WorkerInterruptedException"
              /\ rw.finished = 0
              /\ ~Written(RESTART_LOG.unexpected) /\ ~Written(RESTART_LOG.error)
        /\ (rw.pc = "done" /\ SeenToExit) =>
              /\ rw.raised = "none"
              /\ rw.finished = 1
              /\ Written(RESTART_LOG.unexpected) /\ Written(RESTART_LOG.error)
        /\ rw.pc = "done" => rw.log_stream_restart = "closed"

\* the worker was interrupted while the process ran
C29_Witness ==
    /\ rw.attempts = 0 /\ rw.pc = "done" /\ rw.interrupted
    /\ rw.process = "running" /\ rw.waits > 0
    /\ rw.raised = "WorkerInterruptedException"
    /\ rw.log_stream_restart = "closed"

\* the process exited and the worker reported the failure
C29_WitnessFailure ==
    /\ rw.attempts = 0 /\ rw.pc = "done" /\ ~rw.interrupted
    /\ SeenToExit /\ rw.finished = 1 /\ rw.log_stream_restart = "closed"

\* the process had exited when the worker was interrupted, unseen
C29_WitnessUnseen ==
    /\ rw.attempts = 0 /\ rw.pc = "done" /\ rw.process = "exited" /\ ~SeenToExit
    /\ rw.raised = "WorkerInterruptedException"

(***************************************************************************)
(* C31: when annotation fields and annotations exist, filter_items of      *)
(* WriteAnnotations yields every source item once, in source order, each   *)
(* with one entry per annotation field label: the saved value (a list      *)
(* joined with ", ", in lowercase when to-lowercase is set) when the item  *)
(* is annotated for the field, and the empty string otherwise; without     *)
(* annotation fields or without annotations it yields nothing and          *)
(* finishes the dataset with 0 rows.                                       *)
(***************************************************************************)
AnnotationsExist ==
    /\ wa.annotation_fields /= <<>>
    /\ \E id \in DOMAIN wa.annotations : wa.annotations[id].annotated

\* the text expected for the two saved values of the model
ExpectedText(val) ==
    IF val.is_list
    THEN IF wa.to_lowercase THEN <<"a", ",", " ", "b", "b">>
         ELSE <<"A", ",", " ", "b", "B">>
    ELSE IF wa.to_lowercase THEN <<"a", "b">> ELSE <<"A", "b">>

ExpectedEntry(id, label) ==
    LET saved == wa.annotations[id].values[label]
    IN  IF wa.annotations[id].annotated /\ saved.present
        THEN ExpectedText(saved) ELSE <<>>

C31_AnnotatedItems ==
    /\ AnnotationsExist =>
          /\ wa.pc \in {"filter_items", "iterate"}
          /\ Len(wa.yielded) = wa.post_count
          /\ \A k \in DOMAIN wa.yielded :
                /\ wa.yielded[k].id = k
                /\ DOMAIN wa.yielded[k].fields = Range(wa.annotation_fields)
                /\ \A label \in Range(wa.annotation_fields) :
                      wa.yielded[k].fields[label] = ExpectedEntry(k, label)
    /\ ~AnnotationsExist =>
          /\ wa.yielded = <<>>
          /\ wa.pc = "returned" => wa.finished = <<0>>
          /\ wa.pc /= "iterate"

\* both items were yielded in lowercase: one annotated with a list for one
\* of two fields, the other not annotated
C31_Witness ==
    /\ AnnotationsExist /\ wa.to_lowercase
    /\ wa.items = 2 /\ Len(wa.yielded) = 2
    /\ wa.annotation_fields = <<"topic", "tags">>
    /\ wa.annotations[1].annotated /\ ~wa.annotations[2].annotated
    /\ wa.annotations[1].values["tags"].is_list
    /\ ~wa.annotations[1].values["topic"].present
    /\ wa.yielded[1].fields["tags"] = <<"a", ",", " ", "b", "b">>
    /\ wa.yielded[1].fields["topic"] = <<>>
    /\ wa.yielded[2].fields["tags"] = <<>>

\* nothing was yielded for want of annotations
C31_WitnessNone ==
    /\ wa.pc = "returned" /\ wa.annotation_fields /= <<>> /\ wa.items > 0
    /\ wa.finished = <<0>> /\ wa.yielded = <<>>

(***************************************************************************)
(* C32: of the stringQuery workers that pick up the same job, only one     *)
(* whose claim_job succeeds executes the query; a worker whose claim       *)
(* raises JobClaimedException returns without executing the query,         *)
(* writing results or calling query.finish or queue.finish_job; a worker   *)
(* that claimed the job, once its work has ended, has run the query and    *)
(* called query.finish and queue.finish_job exactly once; so a job is      *)
(* executed and finished by at most one worker.                            *)
(***************************************************************************)
Workers == DOMAIN sw.workers

Untouched(w) ==
    /\ ~sw.workers[w].executed /\ sw.workers[w].results = "none"
    /\ sw.workers[w].query_finish = 0 /\ sw.workers[w].finish_job = 0

C32_OneWorkerFinishes ==
    /\ \A w \in Workers :
          /\ sw.workers[w].claim /= "claimed" => Untouched(w)
          /\ (sw.workers[w].claim = "claimed" /\ sw.workers[w].pc = "done") =>
                /\ sw.workers[w].executed
                /\ sw.workers[w].query_finish = 1
                /\ sw.workers[w].finish_job = 1
    /\ \A job \in DOMAIN sw.claimed_by :
          Cardinality({w \in Workers :
                          sw.workers[w].job = job /\ sw.workers[w].claim = "claimed"}) <= 1

\* what holds: a job is claimed by at most one worker, the others return
\* untouched, and the worker that claimed it ends in a TypeError without
\* having finished the query or the job
C32_ClaimedRaises ==
    /\ \A w \in Workers :
          /\ Untouched(w)
          /\ sw.workers[w].claim = "claimed" <=>
                (sw.workers[w].job /= 0 /\ sw.claimed_by[sw.workers[w].job] = w)
          /\ (sw.workers[w].claim = "claimed" /\ sw.workers[w].pc = "done") =>
                sw.workers[w].raised = "TypeError"
          /\ sw.workers[w].claim /= "claimed" => sw.workers[w].raised = "none"
    /\ \A job \in DOMAIN sw.claimed_by :
          Cardinality({w \in Workers :
                          sw.workers[w].job = job /\ sw.workers[w].claim = "claimed"}) <= 1

\* two workers picked up the same job: one claimed it, the other returned
C32_WitnessContended ==
    \E v, w \in Workers :
        /\ v /= w /\ sw.workers[v].job = sw.workers[w].job
        /\ sw.workers[v].claim = "claimed" /\ sw.workers[v].pc = "done"
        /\ sw.workers[w].claim = "JobClaimedException" /\ sw.workers[w].pc = "done"

(***************************************************************************)
(* C33: ColumnFilter.get_options has no effect on shared state: after any  *)
(* sequence of calls the class attribute options is as it was defined, a   *)
(* call without a parent dataset returns the default options, with an      *)
(* empty "column" option, and a call with a parent dataset returns a       *)
(* "column" choice of the columns of that dataset only, whatever the       *)
(* earlier calls were.                                                     *)
(***************************************************************************)
DefaultColumn == [choice |-> FALSE, options |-> {}]

C33_NoSharedEffect ==
    cf.calls /= <<>> =>
        /\ cf.column = DefaultColumn
        /\ Last(cf.calls).is_none => cf.returned = DefaultColumn
        /\ ~Last(cf.calls).is_none =>
              cf.returned.options = Last(cf.calls).columns

\* what holds: a call with a dataset that has columns returns the choice of
\* these columns, and every call returns what the class attribute then holds
C33_ReturnsClassAttribute ==
    cf.calls /= <<>> =>
        /\ cf.returned = cf.column
        /\ (~Last(cf.calls).is_none /\ Last(cf.calls).columns /= {}) =>
              cf.returned = [choice |-> TRUE, options |-> Last(cf.calls).columns]

\* a call without a parent dataset has returned the columns of the dataset
\* of an earlier call
C33_WitnessLeak ==
    /\ Len(cf.calls) = 2 /\ Last(cf.calls).is_none
    /\ cf.returned = [choice |-> TRUE, options |-> {"author", "body"}]

====
